---- MODULE Spec2Model ----
(***************************************************************************)
(* Model of the eval runtime of go-mcp-evals: EvalClient.RunEvals, the     *)
(* agentic loop of EvalClient.RunEval, the tool-call tracer                *)
(* executeAndTraceToolCall and the hand-over to grading (mcp_evals.go).    *)
(*                                                                         *)
(* Conventions.  A Go pointer is a sequence: <<>> is nil, <<v>> points to  *)
(* v.  A Go string is the sequence of its parts and "" is <<>>, so that    *)
(* concatenation is \o; a Go error is its message, the nil error being     *)
(* <<>>.  Text produced by the LLM or held by the prompt is a sequence of  *)
(* tokens, a token being a pair <<step, block>> (step 0 for the prompt of  *)
(* eval number block).                                                     *)
(***************************************************************************)
EXTENDS Integers, Sequences, FiniteSets, TLC

VARIABLES
    runConfig,    \* the EvalConfig the run command loaded; <<>> when a library caller
                  \* builds the EvalClientConfig itself
    envMode,      \* which collaborators are plugged in: a "rich" or a "lean" LLM / MCP
                  \* server, or ("timed") ones that fail only when the deadline has passed
    ctx,          \* the context handed to every eval: has it a deadline, has it expired
    now,          \* the clock time.Now() reads, in ticks; a call to the LLM or to the MCP
                  \* server takes one tick
    expiredAt,    \* observer: the eval during which the deadline passed, 0 before
    maxSteps,     \* ec.config.MaxSteps after ApplyDefaults
    enforce,      \* ec.config.EnforceMinimumScores after ApplyDefaults
    config,       \* ec.config after ApplyDefaults: prompt caching, cache TTL, system prompt
    evals,        \* the evals slice handed to RunEvals
    idx,          \* RunEvals: index of the eval being run (1-based)
    results,      \* RunEvals: the results slice
    batchRet,     \* RunEvals: its return value, <<>> until it returns
    pc,           \* position of the coordinating goroutine
    sessions,     \* the MCP sessions connected so far, each with the eval it was opened
                  \* for and whether it is still open
    session,      \* RunEval: *mcp.ClientSession, the position of the session in sessions
    trace,        \* RunEval: *EvalTrace
    result,       \* RunEval: *EvalRunResult (without its Trace pointer, which is trace)
    messages,     \* RunEval: message history
    finalText,    \* RunEval: strings.Builder of all text deltas
    stepNumber,   \* RunEval: stepNumber
    step,         \* RunEval: the AgenticStep under construction
    message,      \* RunEval: the accumulated anthropic.Message of the step
    blockIdx,     \* RunEval: position of the tool loop in message.Content
    toolResults,  \* RunEval: tool-result blocks collected in the step
    ret,          \* RunEval: its return value once pc = "ret"
    llmRequests,  \* observer: Messages of every NewStreaming call of this eval, in order
    mcpCalls,     \* observer: the CallTool requests of this step and their outcomes, in order
    gradeCalls,   \* observer: number of gradeWithTrace calls of this eval
    gradeOutcome, \* observer: what the grading call of this eval met, <<>> before it
    input,        \* the arguments of a function applied on its own, <<>> when none is
    output,       \* what that function returned, <<>> before it returns
    tools,        \* RunEval: the tool entries built from the catalog of the session
    requests,     \* observer: the system block and the tools of every LLM request of this
                  \* eval, agent and grading, in order
    phases        \* observer: what RunEval has done so far in this eval, in order: an LLM
                  \* call of the loop, a tool call, the trace aggregates, the grading
                  \* call, the minimum-score check

vars == <<runConfig, envMode, ctx, now, expiredAt, maxSteps, enforce, config, evals, idx, results, batchRet, pc, sessions,
          session,
          trace, result, messages, finalText, stepNumber, step, message, blockIdx,
          toolResults, ret, llmRequests, mcpCalls, gradeCalls, gradeOutcome, tools,
          requests, phases, input, output>>

\* Largest MaxSteps the configuration is drawn from.
MaxStepsBound == 2

\* Largest batch the lean specification runs.
MaxEvals == 2

Nil == <<>>

Ptr(v) == <<v>>

Deref(p) == p[1]

----------------------------------------------------------------------------
\* Inputs: evals

AccuracyRubric == [MinimumScores |-> [d \in {"accuracy"} |-> 4]]

MkEval(n, rubric) ==
    [Name |-> n, Prompt |-> << <<0, n>> >>, AgentSystemPrompt |-> "",
     GradingRubric |-> rubric]

\* A batch of n evals; the first carries a rubric with a minimum score
MkEvals(n) == [k \in 1..n |-> MkEval(k, IF k = 1 THEN Ptr(AccuracyRubric) ELSE Nil)]

----------------------------------------------------------------------------
\* Content blocks and messages (anthropic-sdk-go values used by RunEval)

TextBlock(text) == [type |-> "text", text |-> text, id |-> <<>>, name |-> ""]

ToolUseBlock(id, name) == [type |-> "tool_use", text |-> <<>>, id |-> id, name |-> name]

NewToolResultBlock(toolUseID, content, isError) ==
    [type |-> "tool_result", tool_use_id |-> toolUseID, content |-> content,
     is_error |-> isError]

NewUserMessage(blocks) == [role |-> "user", content |-> blocks]

ToParam(msg) == [role |-> "assistant", content |-> msg.content]

ZeroMessage == [content |-> <<>>, stopReason |-> ""]

----------------------------------------------------------------------------
\* Strings, JSON

RECURSIVE Join(_, _)
\* strings.Join(parts, sep)
Join(parts, sep) ==
    IF parts = <<>> THEN <<>>
    ELSE IF Len(parts) = 1 THEN parts[1]
    ELSE parts[1] \o sep \o Join(Tail(parts), sep)

\* WriteDeltas keeping only the text of the latest stream
WriteDeltasOver(builder, deltas) == deltas

\* finalText after the text deltas of one stream (concatenated) were written to it
WriteDeltas(builder, deltas) == builder \o deltas

RECURSIVE Concat(_)
\* the concatenation of a sequence of strings
Concat(parts) == IF parts = <<>> THEN <<>> ELSE parts[1] \o Concat(Tail(parts))

\* The JSON string encoding of a string: a newline and a quote are escaped
EscapeJSON(val) ==
    [k \in 1..Len(val) |->
        IF val[k] = "\n" THEN "\\n" ELSE IF val[k] = "\"" THEN "\\\"" ELSE val[k]]

\* json.Marshal(map[string]string{key: val})
MarshalStringMap(key, val) ==
    <<"{", "\"", key, "\"", ":", "\"">> \o EscapeJSON(val) \o <<"\"", "}">>

\* fmt.Errorf(prefix + "%w", err) and fmt.Sprintf(prefix + "%s", s)
Wrap(prefix, err) == <<prefix>> \o err

----------------------------------------------------------------------------
\* The MCP server: outcomes of session.CallTool and of loadMCPSession

McpText(text) == [type |-> "text", text |-> text, mime |-> <<>>, uri |-> <<>>]

McpImage(mime) == [type |-> "image", text |-> <<>>, mime |-> mime, uri |-> <<>>]

McpResource(uri) == [type |-> "resource", text |-> <<>>, mime |-> <<>>, uri |-> uri]

\* (result, err) of session.CallTool: the tool ran, the tool reported its own
\* failure in the tools/call response (isError, no Go error), or the call failed.
CallOk ==
    [err |-> <<>>, content |-> <<McpText(<<"8">>), McpImage(<<"image/png">>)>>,
     isError |-> FALSE]

CallToolFailed == [err |-> <<>>, content |-> <<McpText(<<"boom">>)>>, isError |-> TRUE]

CallTransportError == [err |-> <<"connection closed">>, content |-> <<>>, isError |-> FALSE]

CallToolOutcomes(mode) ==
    IF mode = "rich" THEN {CallOk, CallToolFailed, CallTransportError} ELSE {CallOk}

\* session.CallTool with a context whose deadline has passed
CallDeadline == [err |-> <<"context deadline exceeded">>, content |-> <<>>, isError |-> FALSE]

\* The session is up and ListTools answered with this catalog of tool names
LoadOkWith(catalog) == [err |-> <<>>, closed |-> FALSE, catalog |-> catalog]

LoadOk == LoadOkWith(<<"add">>)

LoadConnectError ==
    [err |-> <<"failed to create MCP client: ", "spawn">>, closed |-> FALSE,
     catalog |-> <<>>]

LoadListToolsError ==
    [err |-> <<"failed to list tools: ", "eof">>, closed |-> TRUE, catalog |-> <<>>]

\* (session, err) of loadMCPSession; closed: the session was opened and closed again
LoadOutcomes(mode) ==
    IF mode = "timed" THEN {LoadOk}
    ELSE IF mode = "params"
    THEN {LoadOkWith(<<>>), LoadOkWith(<<"add">>), LoadOkWith(<<"add", "echo">>)}
    ELSE {LoadOk, LoadConnectError, LoadListToolsError}

\* mcpClient.Connect with a context whose deadline has passed
LoadDeadline ==
    [err |-> <<"failed to create MCP client: ", "context deadline exceeded">>,
     closed |-> FALSE, catalog |-> <<>>]

\* The sessions after loadMCPSession met outcome o for eval number i: Connect adds
\* a session unless it fails; a ListTools failure closes it at once
Connect(ss, i, o) ==
    IF o.err # <<>> /\ ~o.closed THEN ss
    ELSE Append(ss, [eval |-> i, open |-> ~o.closed])

\* Close forgetting to close
CloseLeak(ss, s) == ss

\* session.Close(), as the deferred call of RunEval runs it
Close(ss, s) == [ss EXCEPT ![Deref(s)].open = FALSE]

----------------------------------------------------------------------------
\* The LLM: what one NewStreaming call can deliver

StopReasons == {"end_turn", "tool_use", "max_tokens"}

\* The block kinds of the returned message, in order
Shapes ==
    {<<>>, <<"text">>, <<"text", "tool_use">>,
     <<"tool_use", "text", "tool_use">>}

MkContent(shape, s) ==
    [k \in 1..Len(shape) |->
        IF shape[k] = "text" THEN TextBlock(<< <<s, k>> >>)
        ELSE ToolUseBlock(<<s, k>>, "add")]

\* The text deltas of the stream of a message with this content, in arrival order
\* (a tool_use block streams input_json deltas, whose Text is empty)
DeltasOf(content) == [k \in 1..Len(content) |-> content[k].text]

MkUsage(s, nMessages, content) ==
    [InputTokens |-> nMessages, OutputTokens |-> Len(content),
     CacheCreationInputTokens |-> IF s = 1 THEN 2 ELSE 0,
     CacheReadInputTokens |-> IF s = 1 THEN 0 ELSE 2]

ZeroUsage ==
    [InputTokens |-> 0, OutputTokens |-> 0, CacheCreationInputTokens |-> 0,
     CacheReadInputTokens |-> 0]

StreamOk(s, nMessages, reason, shape) ==
    [accErr |-> <<>>, streamErr |-> <<>>, stopReason |-> reason,
     content |-> MkContent(shape, s), deltas |-> DeltasOf(MkContent(shape, s)),
     usage |-> MkUsage(s, nMessages, MkContent(shape, s))]

\* message.Accumulate rejects an event: no delta of the stream was read before it
StreamAccumulateError ==
    [accErr |-> <<"unexpected event">>, streamErr |-> <<>>, stopReason |-> "",
     content |-> <<>>, deltas |-> <<>>, usage |-> ZeroUsage]

\* the stream breaks (transport error, cancellation, deadline) after one text delta
StreamError(s) ==
    [accErr |-> <<>>, streamErr |-> <<"context deadline exceeded">>, stopReason |-> "",
     content |-> <<>>, deltas |-> << << <<s, 1>> >> >>, usage |-> ZeroUsage]

StreamOutcomes(mode, s, nMessages) ==
    IF mode = "rich"
    THEN {StreamOk(s, nMessages, r, sh) : r \in StopReasons, sh \in Shapes}
            \cup {StreamError(s), StreamAccumulateError}
    ELSE {StreamOk(s, nMessages, "end_turn", <<"text">>),
          StreamOk(s, nMessages, "tool_use", <<"tool_use">>)}
            \cup (IF mode = "lean" THEN {StreamError(s)} ELSE {})

\* NewStreaming with a context whose deadline has passed: no delta arrives
StreamDeadline ==
    [accErr |-> <<>>, streamErr |-> <<"context deadline exceeded">>, stopReason |-> "",
     content |-> <<>>, deltas |-> <<>>, usage |-> ZeroUsage]

----------------------------------------------------------------------------
\* The grader: what one gradeWithTrace call can meet

MkGrade(accuracy) ==
    [Accuracy |-> accuracy, Completeness |-> 5, Relevance |-> 5, Clarity |-> 5,
     Reasoning |-> 5, OverallComments |-> <<"fine">>]

\* The score object of a grading response: the scores its JSON carries, by key
AllScores(accuracy) ==
    [d \in {"accuracy", "completeness", "relevance", "clarity", "reasoning"} |->
        IF d = "accuracy" THEN accuracy ELSE 5]

\* A score object without its accuracy key
NoAccuracy == [d \in {"completeness", "relevance", "clarity", "reasoning"} |-> 5]

\* json.Unmarshal into a GradeResult: a key the JSON omits leaves the zero value,
\* a number is taken as it is
UnmarshalGrade(scores) ==
    [Accuracy |-> IF "accuracy" \in DOMAIN scores THEN scores["accuracy"] ELSE 0,
     Completeness |-> IF "completeness" \in DOMAIN scores THEN scores["completeness"] ELSE 0,
     Relevance |-> IF "relevance" \in DOMAIN scores THEN scores["relevance"] ELSE 0,
     Clarity |-> IF "clarity" \in DOMAIN scores THEN scores["clarity"] ELSE 0,
     Reasoning |-> IF "reasoning" \in DOMAIN scores THEN scores["reasoning"] ELSE 0,
     OverallComments |-> <<"fine">>]

\* The grading call answers with a JSON object holding these scores.  The text of a
\* response is a sequence of tokens: "{" "}" "[" "]", the digit "1", " " and "\n",
\* "fence" for a markdown fence and the word "json" that can follow it, "text" for a word of
\* prose and "scores" for the members of a score object; grade is what the
\* members decode to and unmarshalErr the error json.Unmarshal has with them
GradeJson(scores) ==
    [apiErr |-> <<>>, unmarshalErr |-> <<>>, noText |-> FALSE,
     grade |-> UnmarshalGrade(scores),
     raw |-> <<"{", "scores", "}">>, inputTokens |-> 7, outputTokens |-> 2,
     cacheCreation |-> 1, cacheRead |-> 3]

GradeOk(accuracy) == GradeJson(AllScores(accuracy))

\* The same answer inside a markdown fence
Fenced(o) == [o EXCEPT !.raw = <<"fence", "json", "\n">> \o @ \o <<"\n", "fence">>]

\* Messages.New returns an error
GradeApiError ==
    [apiErr |-> <<"overloaded">>, unmarshalErr |-> <<>>,
     noText |-> FALSE, grade |-> MkGrade(1),
     raw |-> <<>>, inputTokens |-> 0, outputTokens |-> 0,
     cacheCreation |-> 0, cacheRead |-> 0]

\* The grading call answers with prose and no JSON
GradeParseError ==
    [apiErr |-> <<>>, unmarshalErr |-> <<>>,
     noText |-> FALSE, grade |-> MkGrade(1),
     raw |-> <<"text", " ", "text">>, inputTokens |-> 7, outputTokens |-> 2,
     cacheCreation |-> 1, cacheRead |-> 3]

\* json.Unmarshal rejects the extracted object (a score that is not a number)
GradeUnmarshalError ==
    [apiErr |-> <<>>, unmarshalErr |-> <<"cannot unmarshal string">>,
     noText |-> FALSE, grade |-> MkGrade(1),
     raw |-> <<"{", "scores", "}">>, inputTokens |-> 7, outputTokens |-> 2,
     cacheCreation |-> 1, cacheRead |-> 3]

\* the response has no content block, or its first block is not a text block:
\* resp.Content[0].AsAny().(anthropic.TextBlock) panics
GradeNoText ==
    [apiErr |-> <<>>, unmarshalErr |-> <<>>,
     noText |-> TRUE, grade |-> MkGrade(1),
     raw |-> <<>>, inputTokens |-> 7, outputTokens |-> 2,
     cacheCreation |-> 1, cacheRead |-> 3]

GradeOutcomes(mode) ==
    IF mode = "rich"
    THEN {GradeOk(5), Fenced(GradeOk(4)), GradeOk(3), GradeJson(NoAccuracy), GradeOk(6),
          GradeApiError, GradeParseError, GradeUnmarshalError, GradeNoText}
    ELSE IF mode = "lean" THEN {GradeOk(5), GradeOk(3), GradeApiError}
    ELSE {GradeOk(5)}

\* Messages.New with a context whose deadline has passed
GradeDeadline ==
    [apiErr |-> <<"context deadline exceeded">>, unmarshalErr |-> <<>>,
     noText |-> FALSE, grade |-> MkGrade(1),
     raw |-> <<>>, inputTokens |-> 0, outputTokens |-> 0,
     cacheCreation |-> 0, cacheRead |-> 0]

----------------------------------------------------------------------------
\* Trace records

\* The zero time.Time, before every reading of the clock
ZeroTime == 0

\* NewStep numbering the steps from zero
NewStepFromZero(n) ==
    [StepNumber |-> n - 1, StartTime |-> ZeroTime, EndTime |-> ZeroTime, Duration |-> 0,
     ModelResponse |-> <<>>, StopReason |-> "", ToolCalls |-> <<>>,
     InputTokens |-> 0, OutputTokens |-> 0, CacheCreationInputTokens |-> 0,
     CacheReadInputTokens |-> 0, Error |-> <<>>]

NewStep(n) ==
    [StepNumber |-> n, StartTime |-> ZeroTime, EndTime |-> ZeroTime, Duration |-> 0,
     ModelResponse |-> <<>>, StopReason |-> "", ToolCalls |-> <<>>,
     InputTokens |-> 0, OutputTokens |-> 0, CacheCreationInputTokens |-> 0,
     CacheReadInputTokens |-> 0, Error |-> <<>>]

NewTrace ==
    [Steps |-> <<>>, Grading |-> Nil, TotalInputTokens |-> 0, TotalOutputTokens |-> 0,
     StepCount |-> 0, ToolCallCount |-> 0, TotalCacheCreationTokens |-> 0,
     TotalCacheReadTokens |-> 0]

NewResult(eval) == [Eval |-> eval, Result |-> Nil, Grade |-> Nil, Error |-> <<>>]

\* The zero EvalRunResult, as make([]EvalRunResult, n) fills the slice
ZeroEval == [Name |-> 0, Prompt |-> <<>>, AgentSystemPrompt |-> "", GradingRubric |-> Nil]

ZeroResult ==
    [Eval |-> ZeroEval, Result |-> Nil, Grade |-> Nil, Error |-> <<>>, Trace |-> Nil]

----------------------------------------------------------------------------
\* executeAndTraceToolCall

RenderContent(c) ==
    IF c.type = "text" THEN c.text
    ELSE IF c.type = "image" THEN <<"[Image: ">> \o c.mime \o <<"]">>
    ELSE IF c.type = "resource" THEN <<"[Resource: ">> \o c.uri \o <<"]">>
    ELSE <<>>

ContentParts(content) == [k \in 1..Len(content) |-> RenderContent(content[k])]

\* executeAndTraceToolCall leaving the error message out of a failed record
executeAndTraceQuiet(toolUseBlock, o) ==
    [ToolID |-> toolUseBlock.id, ToolName |-> toolUseBlock.name,
     Success |-> o.err = <<>>, Error |-> <<>>,
     Output |-> MarshalStringMap("result", Join(ContentParts(o.content), <<"\n">>))]

\* The ToolCall record built from the outcome o of session.CallTool
executeAndTraceToolCall(toolUseBlock, o) ==
    IF o.err # <<>>
    THEN [ToolID |-> toolUseBlock.id, ToolName |-> toolUseBlock.name,
          Success |-> FALSE, Error |-> o.err,
          Output |-> MarshalStringMap("error", o.err)]
    ELSE [ToolID |-> toolUseBlock.id, ToolName |-> toolUseBlock.name,
          Success |-> TRUE, Error |-> <<>>,
          Output |-> MarshalStringMap("result", Join(ContentParts(o.content), <<"\n">>))]

----------------------------------------------------------------------------
\* Pieces of RunEval

\* LoopNext with an off-by-one loop bound
LoopNextOffByOne(done, max) == IF done <= max THEN "llm" ELSE "metrics"

\* `for range ec.config.MaxSteps`: where the loop goes after `done` iterations
LoopNext(done, max) == IF done < max THEN "llm" ELSE "metrics"

\* AfterStream without the check for the other stop reasons
AfterStreamEndTurnOnly(stopReason) == IF stopReason = "end_turn" THEN "break" ELSE "tools"

\* The two stop-reason checks after the assistant message is appended
AfterStream(stopReason) ==
    IF stopReason = "end_turn" THEN "break"
    ELSE IF stopReason # "tool_use" THEN "break"
    ELSE "tools"

\* ToolResultFor handing the output JSON to the model whatever the outcome
ToolResultForOutput(block, toolCall) ==
    NewToolResultBlock(block.id, toolCall.Output, ~toolCall.Success)

\* The tool-result block built for one executed tool call
ToolResultFor(block, toolCall) ==
    NewToolResultBlock(
        block.id,
        IF toolCall.Success THEN toolCall.Output
        ELSE Wrap("Error calling tool: ", toolCall.Error),
        ~toolCall.Success)

RECURSIVE ModelResponseOf(_)
\* step.ModelResponse: the text blocks of message.Content, concatenated
ModelResponseOf(content) ==
    IF content = <<>> THEN <<>>
    ELSE (IF content[1].type = "text" THEN content[1].text ELSE <<>>)
            \o ModelResponseOf(Tail(content))

\* The step as the loop creates it at time t
StartStep(n, t) == [NewStep(n) EXCEPT !.StartTime = t]

\* step.EndTime = time.Now(); step.Duration = step.EndTime.Sub(stepStart)
FinishStep(st, t) == [st EXCEPT !.EndTime = t, !.Duration = t - st.StartTime]

\* The step filled in from the accumulated message
RecordStep(st, r) ==
    [st EXCEPT !.StopReason = r.stopReason,
               !.InputTokens = r.usage.InputTokens,
               !.OutputTokens = r.usage.OutputTokens,
               !.CacheCreationInputTokens = r.usage.CacheCreationInputTokens,
               !.CacheReadInputTokens = r.usage.CacheReadInputTokens,
               !.ModelResponse = ModelResponseOf(r.content)]

\* The history after the assistant message of the step is added
AppendAssistant(history, msg) == Append(history, ToParam(msg))

\* AppendToolResults putting the tool results before the assistant message they answer
InsertToolResults(history, blocks) ==
    SubSeq(history, 1, Len(history) - 1)
        \o <<NewUserMessage(blocks), history[Len(history)]>>

\* The history after the tool results of the step are added
AppendToolResults(history, blocks) == Append(history, NewUserMessage(blocks))

\* What RunEval hands back on a stream failure
StreamFailure(prefix, err) == [result |-> Nil, err |-> Wrap(prefix, err)]

\* FailStep forgetting the error
FailStepSilent(st, err) == st

\* The step as it is appended to the trace on a stream failure
FailStep(st, err) == [st EXCEPT !.Error = err]

\* AppendToolCall leaving the record out
AppendToolCallNone(calls, toolCall) == calls

\* step.ToolCalls = append(step.ToolCalls, toolCall)
AppendToolCall(calls, toolCall) == Append(calls, toolCall)

\* AppendResult putting the newest block first
PrependResult(blocks, block) == <<block>> \o blocks

\* toolResults = append(toolResults, block)
AppendResult(blocks, block) == Append(blocks, block)

RECURSIVE SumOver(_, _)
SumOver(steps, field) ==
    IF steps = <<>> THEN 0 ELSE steps[1][field] + SumOver(Tail(steps), field)

RECURSIVE CountToolCalls(_)
CountToolCalls(steps) ==
    IF steps = <<>> THEN 0 ELSE Len(steps[1].ToolCalls) + CountToolCalls(Tail(steps))

\* "Calculate trace metrics"
WithMetrics(tr) ==
    [tr EXCEPT !.StepCount = Len(tr.Steps),
               !.TotalInputTokens = tr.TotalInputTokens + SumOver(tr.Steps, "InputTokens"),
               !.TotalOutputTokens = tr.TotalOutputTokens + SumOver(tr.Steps, "OutputTokens"),
               !.ToolCallCount = tr.ToolCallCount + CountToolCalls(tr.Steps),
               !.TotalCacheCreationTokens =
                    tr.TotalCacheCreationTokens + SumOver(tr.Steps, "CacheCreationInputTokens"),
               !.TotalCacheReadTokens =
                    tr.TotalCacheReadTokens + SumOver(tr.Steps, "CacheReadInputTokens")]

----------------------------------------------------------------------------
\* Grading and minimum scores

\* The orders in which a range loop can visit the keys of the minimum_scores map of
\* a rubric: every order (none for a nil rubric)
KeyOrders(r) ==
    IF r = Nil THEN {<<>>}
    ELSE {order \in [1..Cardinality(DOMAIN Deref(r).MinimumScores)
                        -> DOMAIN Deref(r).MinimumScores] :
            \A i, j \in DOMAIN order : order[i] = order[j] => i = j}

\* actualScore of the switch over dim: the zero value for any other name
ScoreOf(grade, dim) ==
    CASE dim = "accuracy" -> grade.Accuracy
      [] dim = "completeness" -> grade.Completeness
      [] dim = "relevance" -> grade.Relevance
      [] dim = "clarity" -> grade.Clarity
      [] dim = "reasoning" -> grade.Reasoning
      [] OTHER -> 0

RECURSIVE FailuresStrict(_, _, _)
\* Failures asking for a score above the minimum
FailuresStrict(ms, grade, dims) ==
    IF dims = <<>> THEN <<>>
    ELSE (IF ScoreOf(grade, dims[1]) <= ms[dims[1]]
          THEN << <<dims[1], ": got ", ToString(ScoreOf(grade, dims[1])),
                    ", required ", ToString(ms[dims[1]])>> >>
          ELSE <<>>)
         \o FailuresStrict(ms, grade, Tail(dims))

RECURSIVE Failures(_, _, _)
\* the failure messages, one per key of the map whose score is below its minimum, in
\* the order dims in which the loop visits the keys
Failures(ms, grade, dims) ==
    IF dims = <<>> THEN <<>>
    ELSE (IF ScoreOf(grade, dims[1]) < ms[dims[1]]
          THEN << <<dims[1], ": got ", ToString(ScoreOf(grade, dims[1])),
                    ", required ", ToString(ms[dims[1]])>> >>
          ELSE <<>>)
         \o Failures(ms, grade, Tail(dims))

\* CheckMinimumScores returning at the first failure
CheckMinimumScoresFirst(r, grade, order) ==
    IF r = Nil THEN <<>>
    ELSE IF DOMAIN Deref(r).MinimumScores = {} THEN <<>>
    ELSE IF Failures(Deref(r).MinimumScores, grade, order) = <<>> THEN <<>>
    ELSE <<"eval failed minimum score requirements: ">>
            \o Failures(Deref(r).MinimumScores, grade, order)[1]
            \o <<". Review grading criteria or adjust rubric thresholds">>

\* (*GradingRubric).CheckMinimumScores, the range loop visiting the keys in order
CheckMinimumScores(r, grade, order) ==
    IF r = Nil THEN <<>>
    ELSE IF DOMAIN Deref(r).MinimumScores = {} THEN <<>>
    ELSE IF Failures(Deref(r).MinimumScores, grade, order) = <<>> THEN <<>>
    ELSE <<"eval failed minimum score requirements: ">>
            \o Join(Failures(Deref(r).MinimumScores, grade, order), <<"; ">>)
            \o <<". Review grading criteria or adjust rubric thresholds">>

----------------------------------------------------------------------------
\* The grading-response extractor

RECURSIVE TrimLeft(_)
\* strings.TrimLeftFunc(s, unicode.IsSpace)
TrimLeft(s) ==
    IF s # <<>> /\ s[1] \in {" ", "\n"} THEN TrimLeft(Tail(s)) ELSE s

RECURSIVE TrimRight(_)
TrimRight(s) ==
    IF s # <<>> /\ s[Len(s)] \in {" ", "\n"} THEN TrimRight(SubSeq(s, 1, Len(s) - 1)) ELSE s

\* strings.TrimSpace
TrimSpace(s) == TrimRight(TrimLeft(s))

\* strings.TrimPrefix
TrimPrefix(s, prefix) ==
    IF Len(s) >= Len(prefix) /\ SubSeq(s, 1, Len(prefix)) = prefix
    THEN SubSeq(s, Len(prefix) + 1, Len(s)) ELSE s

\* strings.TrimSuffix
TrimSuffix(s, suffix) ==
    IF Len(s) >= Len(suffix) /\ SubSeq(s, Len(s) - Len(suffix) + 1, Len(s)) = suffix
    THEN SubSeq(s, 1, Len(s) - Len(suffix)) ELSE s

\* stripMarkdownFences
stripMarkdownFences(s) ==
    TrimSpace(TrimSuffix(TrimPrefix(TrimPrefix(TrimSpace(s), <<"fence", "json">>),
                                    <<"fence">>),
                         <<"fence">>))

NoValue == [ok |-> FALSE, rest |-> <<>>]

RECURSIVE SkipDigits(_)
SkipDigits(s) == IF s # <<>> /\ s[1] = "1" THEN SkipDigits(Tail(s)) ELSE s

\* The text after the token c that must come next, white space skipped
Closing(s, c) ==
    IF TrimLeft(s) # <<>> /\ TrimLeft(s)[1] = c
    THEN [ok |-> TRUE, rest |-> Tail(TrimLeft(s))] ELSE NoValue

RECURSIVE ParseValue(_)
\* The decoder of encoding/json reading one value at the head of s: a number, an
\* object (empty or holding the score members), an array (empty or of one value;
\* the texts hold no comma)
ParseValue(s) ==
    IF TrimLeft(s) = <<>> THEN NoValue
    ELSE IF TrimLeft(s)[1] = "1"
    THEN [ok |-> TRUE, rest |-> SkipDigits(TrimLeft(s))]
    ELSE IF TrimLeft(s)[1] = "{"
    THEN IF Closing(Tail(TrimLeft(s)), "}").ok THEN Closing(Tail(TrimLeft(s)), "}")
         ELSE IF Closing(Tail(TrimLeft(s)), "scores").ok
         THEN Closing(Closing(Tail(TrimLeft(s)), "scores").rest, "}")
         ELSE NoValue
    ELSE IF TrimLeft(s)[1] = "["
    THEN IF Closing(Tail(TrimLeft(s)), "]").ok THEN Closing(Tail(TrimLeft(s)), "]")
         ELSE IF ParseValue(Tail(TrimLeft(s))).ok
         THEN Closing(ParseValue(Tail(TrimLeft(s))).rest, "]")
         ELSE NoValue
    ELSE NoValue

\* isValidJSON
isValidJSON(s) ==
    /\ TrimSpace(s) # <<>>
    /\ ParseValue(TrimSpace(s)).ok
    /\ TrimLeft(ParseValue(TrimSpace(s)).rest) = <<>>

\* The positions of the token c in s
Positions(s, c) == {k \in 1..Len(s) : s[k] = c}

Min(S) == CHOOSE x \in S : \A y \in S : x <= y

Max(S) == CHOOSE x \in S : \A y \in S : x >= y

\* FindString of the greedy pattern open[\s\S]*close: from the first open to the
\* last close after it, "" when there is none
FindString(s, open, close) ==
    IF Positions(s, open) # {} /\ Positions(s, close) # {}
       /\ Max(Positions(s, close)) > Min(Positions(s, open))
    THEN SubSeq(s, Min(Positions(s, open)), Max(Positions(s, close)))
    ELSE <<>>

\* extractJSONWithRegex
extractJSONWithRegex(s) ==
    IF FindString(s, "{", "}") # <<>>
    THEN [text |-> TrimSpace(FindString(s, "{", "}")), err |-> <<>>]
    ELSE IF FindString(s, "[", "]") # <<>>
    THEN [text |-> TrimSpace(FindString(s, "[", "]")), err |-> <<>>]
    ELSE [text |-> <<>>, err |-> <<"no JSON structure found">>]

RECURSIVE Split(_, _)
\* strings.Split(s, sep) for a separator of one token
Split(s, sep) ==
    IF Positions(s, sep) = {} THEN <<s>>
    ELSE <<SubSeq(s, 1, Min(Positions(s, sep)) - 1)>>
            \o Split(SubSeq(s, Min(Positions(s, sep)) + 1, Len(s)), sep)

\* The change of a depth counter over one line
Depth(line, open, close) ==
    Cardinality(Positions(line, open)) - Cardinality(Positions(line, close))

RECURSIVE Scan(_, _, _, _, _)
\* The loop of extractJSONByScanning over the lines left
Scan(lines, jsonLines, inJSON, braceCount, bracketCount) ==
    IF lines = <<>> THEN [text |-> <<>>, err |-> <<"no complete JSON structure found">>]
    ELSE IF ~inJSON /\ TrimSpace(lines[1]) = <<>>
    THEN Scan(Tail(lines), jsonLines, inJSON, braceCount, bracketCount)
    ELSE IF inJSON \/ TrimSpace(lines[1])[1] \in {"{", "["}
    THEN IF /\ braceCount + Depth(lines[1], "{", "}") = 0
            /\ bracketCount + Depth(lines[1], "[", "]") = 0
         THEN [text |-> TrimSpace(Join(Append(jsonLines, lines[1]), <<"\n">>)),
               err |-> <<>>]
         ELSE Scan(Tail(lines), Append(jsonLines, lines[1]), TRUE,
                   braceCount + Depth(lines[1], "{", "}"),
                   bracketCount + Depth(lines[1], "[", "]"))
    ELSE Scan(Tail(lines), jsonLines, inJSON, braceCount, bracketCount)

\* extractJSONByScanning
extractJSONByScanning(s) == Scan(Split(s, "\n"), <<>>, FALSE, 0, 0)

\* extractJSONFromResponse trying the pattern before the fences
extractJSONRegexFirst(s) ==
    IF isValidJSON(TrimSpace(s)) THEN [text |-> TrimSpace(s), err |-> <<>>]
    ELSE IF extractJSONWithRegex(TrimSpace(s)).err = <<>>
            /\ isValidJSON(extractJSONWithRegex(TrimSpace(s)).text)
    THEN [text |-> extractJSONWithRegex(TrimSpace(s)).text, err |-> <<>>]
    ELSE IF isValidJSON(stripMarkdownFences(TrimSpace(s)))
    THEN [text |-> stripMarkdownFences(TrimSpace(s)), err |-> <<>>]
    ELSE IF extractJSONByScanning(TrimSpace(s)).err = <<>>
            /\ isValidJSON(extractJSONByScanning(TrimSpace(s)).text)
    THEN [text |-> extractJSONByScanning(TrimSpace(s)).text, err |-> <<>>]
    ELSE [text |-> stripMarkdownFences(TrimSpace(s)), err |-> <<>>]

\* extractJSONFromResponse: (string, error); the error is nil on every return
extractJSONFromResponse(s) ==
    IF isValidJSON(TrimSpace(s)) THEN [text |-> TrimSpace(s), err |-> <<>>]
    ELSE IF isValidJSON(stripMarkdownFences(TrimSpace(s)))
    THEN [text |-> stripMarkdownFences(TrimSpace(s)), err |-> <<>>]
    ELSE IF extractJSONWithRegex(TrimSpace(s)).err = <<>>
            /\ isValidJSON(extractJSONWithRegex(TrimSpace(s)).text)
    THEN [text |-> extractJSONWithRegex(TrimSpace(s)).text, err |-> <<>>]
    ELSE IF extractJSONByScanning(TrimSpace(s)).err = <<>>
            /\ isValidJSON(extractJSONByScanning(TrimSpace(s)).text)
    THEN [text |-> extractJSONByScanning(TrimSpace(s)).text, err |-> <<>>]
    ELSE [text |-> stripMarkdownFences(TrimSpace(s)), err |-> <<>>]

\* json.Unmarshal([]byte(cleanedResponse), &gradeResult) when the grading call met
\* outcome o: a text that is no JSON and a JSON value that is no object are
\* rejected, an empty object leaves the zero GradeResult
Unmarshal(cleanedResponse, o) ==
    IF ~isValidJSON(cleanedResponse)
    THEN [grade |-> Nil, err |-> <<"invalid character">>]
    ELSE IF TrimSpace(cleanedResponse)[1] # "{"
    THEN [grade |-> Nil, err |-> <<"cannot unmarshal into Go value of type GradeResult">>]
    ELSE IF Positions(cleanedResponse, "scores") = {}
    THEN [grade |-> Ptr([UnmarshalGrade(<<>>) EXCEPT !.OverallComments = <<>>]),
          err |-> <<>>]
    ELSE IF o.unmarshalErr # <<>> THEN [grade |-> Nil, err |-> o.unmarshalErr]
    ELSE [grade |-> Ptr(o.grade), err |-> <<>>]

----------------------------------------------------------------------------
\* gradeWithTrace

NewGradingTrace(eval, evalResult) ==
    [UserPrompt |-> eval.Prompt, ModelResponse |-> evalResult.RawResponse,
     RawGradingOutput |-> <<>>, InputTokens |-> 0, OutputTokens |-> 0,
     CacheCreationInputTokens |-> 0, CacheReadInputTokens |-> 0, Error |-> <<>>]

\* (grade, gradingTrace, err) of gradeWithTrace when the grading call meets outcome o
gradeWithTrace(eval, evalResult, o) ==
    IF o.apiErr # <<>>
    THEN [grade |-> Nil,
          trace |-> Ptr([NewGradingTrace(eval, evalResult) EXCEPT !.Error = o.apiErr]),
          err |-> Wrap("failed to get grading response: ", o.apiErr)]
    ELSE IF extractJSONFromResponse(o.raw).err # <<>>
    THEN [grade |-> Nil,
          trace |-> Ptr([NewGradingTrace(eval, evalResult) EXCEPT
                            !.RawGradingOutput = o.raw,
                            !.InputTokens = o.inputTokens,
                            !.OutputTokens = o.outputTokens,
                            !.CacheCreationInputTokens = o.cacheCreation,
                            !.CacheReadInputTokens = o.cacheRead,
                            !.Error = extractJSONFromResponse(o.raw).err]),
          err |-> Wrap("failed to extract JSON from grading response: ",
                       extractJSONFromResponse(o.raw).err)]
    ELSE IF Unmarshal(extractJSONFromResponse(o.raw).text, o).err # <<>>
    THEN [grade |-> Nil,
          trace |-> Ptr([NewGradingTrace(eval, evalResult) EXCEPT
                            !.RawGradingOutput = o.raw,
                            !.InputTokens = o.inputTokens,
                            !.OutputTokens = o.outputTokens,
                            !.CacheCreationInputTokens = o.cacheCreation,
                            !.CacheReadInputTokens = o.cacheRead,
                            !.Error = Unmarshal(extractJSONFromResponse(o.raw).text, o).err]),
          err |-> Wrap("failed to parse grading response: ",
                       Unmarshal(extractJSONFromResponse(o.raw).text, o).err)]
    ELSE [grade |-> Unmarshal(extractJSONFromResponse(o.raw).text, o).grade,
          trace |-> Ptr([NewGradingTrace(eval, evalResult) EXCEPT
                            !.RawGradingOutput = o.raw,
                            !.InputTokens = o.inputTokens,
                            !.OutputTokens = o.outputTokens,
                            !.CacheCreationInputTokens = o.cacheCreation,
                            !.CacheReadInputTokens = o.cacheRead]),
          err |-> <<>>]

RECURSIVE ToolContext(_)
\* The tool calls of the steps as the grading prompt lists them
ToolContext(steps) ==
    IF steps = <<>> THEN <<>>
    ELSE [k \in 1..Len(steps[1].ToolCalls) |->
            [Tool |-> steps[1].ToolCalls[k].ToolName,
             Status |-> IF steps[1].ToolCalls[k].Success THEN "SUCCESS" ELSE "FAILED",
             Data |-> IF steps[1].ToolCalls[k].Success
                      THEN steps[1].ToolCalls[k].Output
                      ELSE steps[1].ToolCalls[k].Error]]
            \o ToolContext(Tail(steps))

\* buildGradingPrompt up to the rubric: the prompt, the answer, and the tool
\* execution context when the trace counts a tool call
buildGradingPrompt(evalResult, execTrace) ==
    [UserInput |-> evalResult.Prompt, Answer |-> evalResult.RawResponse,
     ToolContext |-> IF execTrace.ToolCallCount > 0
                     THEN ToolContext(execTrace.Steps) ELSE <<>>]

\* EnforcePhase checking the minimum scores whatever the grading returned
EnforcePhaseAlways(g, enforced) == IF enforced THEN <<"enforce">> ELSE <<>>

\* The call of CheckMinimumScores in the "Auto-grade" block: in the branch where
\* grading returned no error, when enforcement is on
EnforcePhase(g, enforced) == IF g.err = <<>> /\ enforced THEN <<"enforce">> ELSE <<>>

\* Graded losing the eval result when grading fails
GradedDropsResult(res, g, enforced, order) ==
    IF g.err # <<>>
    THEN [res EXCEPT !.Error = Wrap("grading failed: ", g.err), !.Result = Nil]
    ELSE [res EXCEPT !.Grade = g.grade]

\* result.Error and result.Grade after the "Auto-grade" block
Graded(res, g, enforced, order) ==
    IF g.err # <<>>
    THEN [res EXCEPT !.Error = Wrap("grading failed: ", g.err)]
    ELSE [res EXCEPT !.Grade = g.grade,
                     !.Error =
                        IF enforced
                           /\ CheckMinimumScores(res.Eval.GradingRubric, Deref(g.grade),
                                                 order) # <<>>
                        THEN CheckMinimumScores(res.Eval.GradingRubric, Deref(g.grade),
                                                order)
                        ELSE res.Error]

\* WithGrading adding the grading tokens to the token totals as well
WithGradingTokens(tr, g) ==
    IF g.trace = Nil THEN [tr EXCEPT !.Grading = g.trace]
    ELSE [tr EXCEPT !.Grading = g.trace,
                    !.TotalInputTokens = tr.TotalInputTokens + Deref(g.trace).InputTokens,
                    !.TotalCacheCreationTokens =
                        tr.TotalCacheCreationTokens + Deref(g.trace).CacheCreationInputTokens,
                    !.TotalCacheReadTokens =
                        tr.TotalCacheReadTokens + Deref(g.trace).CacheReadInputTokens]

\* "Include grading cache metrics in totals"
WithGrading(tr, g) ==
    IF g.trace = Nil THEN [tr EXCEPT !.Grading = g.trace]
    ELSE [tr EXCEPT !.Grading = g.trace,
                    !.TotalCacheCreationTokens =
                        tr.TotalCacheCreationTokens + Deref(g.trace).CacheCreationInputTokens,
                    !.TotalCacheReadTokens =
                        tr.TotalCacheReadTokens + Deref(g.trace).CacheReadInputTokens]

----------------------------------------------------------------------------
\* Pieces of RunEvals

\* The entry RunEvals stores when RunEval returned an error
FatalResult(eval, err) ==
    [Eval |-> eval, Result |-> Nil, Grade |-> Nil, Error |-> err, Trace |-> Nil]

\* results[i] after RunEval returned r for eval
Recorded(eval, r) == IF r.err # <<>> THEN FatalResult(eval, r.err) ELSE Deref(r.result)

\* BatchNext returning from the batch at the first eval that failed
BatchNextAbort(i, n, r) == IF i < n /\ r.err = <<>> THEN "call" ELSE "return"

\* Where RunEvals goes after eval number i of n: `continue` / next iteration / return
BatchNext(i, n, r) == IF i < n THEN "call" ELSE "return"

----------------------------------------------------------------------------
\* The context

\* context.Background(), or context.WithTimeout of it when config.timeout is set
NewContext(timeout) == [deadline |-> timeout, expired |-> FALSE]

\* What a call made with context c can meet: once the deadline has passed it
\* fails with the context's error
Within(c, outcomes, failed) == IF c.expired THEN {failed} ELSE outcomes

\* EvalContext giving every eval a timeout of its own
EvalContextFresh(c) == [c EXCEPT !.expired = FALSE]

\* The context an eval of the batch runs with: the one of the batch
EvalContext(c) == c

----------------------------------------------------------------------------
\* Configuration

\* The values of an optional *bool
OptBool == {Nil, Ptr(TRUE), Ptr(FALSE)}

\* An EvalConfig as the run command loads it
MkEvalConfig(enforceMinimumScores) ==
    [EnforceMinimumScores |-> enforceMinimumScores, EnablePromptCaching |-> Nil,
     CacheTTL |-> ""]

\* The EvalClientConfig the run command builds from the loaded EvalConfig: the
\* caching fields are copied when set, EnforceMinimumScores and AgentSystemPrompt
\* stay at their zero values
createClient(c) ==
    [EnforceMinimumScores |-> Nil, EnablePromptCaching |-> c.EnablePromptCaching,
     CacheTTL |-> c.CacheTTL, AgentSystemPrompt |-> ""]

\* (*EvalClientConfig).ApplyDefaults
ApplyDefaults(c) ==
    [c EXCEPT !.EnforceMinimumScores = IF @ = Nil THEN Ptr(TRUE) ELSE @,
              !.EnablePromptCaching = IF @ = Nil THEN Ptr(TRUE) ELSE @,
              !.CacheTTL = IF @ = "" THEN "5m" ELSE @]

\* The EvalClientConfig values NewEvalClient can be handed
ClientConfigs(c) ==
    IF c = Nil
    THEN {[EnforceMinimumScores |-> p, EnablePromptCaching |-> Nil, CacheTTL |-> "",
           AgentSystemPrompt |-> ""] : p \in OptBool}
    ELSE {createClient(Deref(c))}

\* The EvalClientConfig values of a library caller who sets the prompt fields
PromptConfigs ==
    [EnforceMinimumScores : {Nil}, EnablePromptCaching : OptBool,
     CacheTTL : {"", "5m", "1h"}, AgentSystemPrompt : {"", "client prompt"}]

----------------------------------------------------------------------------
\* The requests RunEval and gradeWithTrace send

\* anthropic.NewCacheControlEphemeralParam(), with the TTL set for "1h"
CacheControl(c) == [Type |-> "ephemeral", TTL |-> IF c.CacheTTL = "1h" THEN "1h" ELSE ""]

\* ec.config.EnablePromptCaching != nil && *ec.config.EnablePromptCaching
Caching(c) == c.EnablePromptCaching # Nil /\ Deref(c.EnablePromptCaching)

\* ToolParams marking every tool entry
ToolParamsAllMarked(c, catalog) ==
    [k \in 1..Len(catalog) |->
        [Name |-> catalog[k],
         CacheControl |-> IF Caching(c) THEN Ptr(CacheControl(c)) ELSE Nil]]

\* The tool entries of the requests: one per tool of the catalog, the last one with
\* a cache-control marker when caching is enabled
ToolParams(c, catalog) ==
    [k \in 1..Len(catalog) |->
        [Name |-> catalog[k],
         CacheControl |->
            IF Caching(c) /\ k = Len(catalog) THEN Ptr(CacheControl(c)) ELSE Nil]]

\* PromptText preferring the client's prompt
PromptTextClientFirst(c, eval) ==
    IF c.AgentSystemPrompt # "" THEN c.AgentSystemPrompt
    ELSE IF eval.AgentSystemPrompt # "" THEN eval.AgentSystemPrompt
    ELSE "AgentSystemPrompt"

\* promptText: per-eval > client config > default constant
PromptText(c, eval) ==
    IF eval.AgentSystemPrompt # "" THEN eval.AgentSystemPrompt
    ELSE IF c.AgentSystemPrompt # "" THEN c.AgentSystemPrompt
    ELSE "AgentSystemPrompt"

\* A system block with its cache-control marker when caching is enabled
SystemBlock(c, text) ==
    [Text |-> text, CacheControl |-> IF Caching(c) THEN Ptr(CacheControl(c)) ELSE Nil]

\* The parameters of one NewStreaming call of the loop
AgentRequest(c, eval, toolParams) ==
    [kind |-> "agent", System |-> <<SystemBlock(c, PromptText(c, eval))>>,
     Tools |-> toolParams, Prompt |-> <<>>]

\* The parameters of the Messages.New call of gradeWithTrace
GradingRequest(c, gradingPrompt) ==
    [kind |-> "grading", System |-> <<SystemBlock(c, "EvalSystemPrompt")>>,
     Tools |-> <<>>, Prompt |-> gradingPrompt]

----------------------------------------------------------------------------
\* State machine

NoRet == [result |-> Nil, err |-> <<>>]

Locals == <<session, trace, result, messages, finalText, stepNumber, step, message,
            blockIdx, toolResults, ret, llmRequests, mcpCalls, gradeCalls, gradeOutcome,
            tools, requests, phases>>

Config == <<runConfig, envMode, maxSteps, enforce, config, evals>>

Clock == <<ctx, expiredAt>>

Unit == <<input, output>>

InitCommon ==
    /\ maxSteps \in 1..MaxStepsBound
    /\ \E clientConfig \in
            (IF envMode = "params" THEN PromptConfigs ELSE ClientConfigs(runConfig)) :
        /\ config = ApplyDefaults(clientConfig)
        /\ enforce = Deref(ApplyDefaults(clientConfig).EnforceMinimumScores)
    /\ expiredAt = 0
    /\ now = 1
    /\ idx = 1
    /\ results = [k \in 1..Len(evals) |-> ZeroResult]
    /\ batchRet = Nil
    /\ pc = BatchNext(0, Len(evals), NoRet)
    /\ sessions = <<>>
    /\ session = Nil
    /\ trace = NewTrace
    /\ result = NewResult(ZeroEval)
    /\ messages = <<>>
    /\ finalText = <<>>
    /\ stepNumber = 0
    /\ step = NewStep(0)
    /\ message = ZeroMessage
    /\ blockIdx = 0
    /\ toolResults = <<>>
    /\ ret = NoRet
    /\ llmRequests = <<>>
    /\ mcpCalls = <<>>
    /\ gradeCalls = 0
    /\ gradeOutcome = Nil
    /\ tools = <<>>
    /\ requests = <<>>
    /\ phases = <<>>

\* One eval against every behaviour of the LLM and of the MCP server
Init ==
    /\ envMode = "rich"
    /\ runConfig \in {Nil} \cup {Ptr(MkEvalConfig(p)) : p \in OptBool}
    /\ ctx = NewContext(FALSE)
    /\ evals = MkEvals(1)
    /\ InitCommon
    /\ input = Nil
    /\ output = Nil

\* A batch of evals against the lean LLM and MCP server
InitBatch ==
    /\ envMode = "lean"
    /\ runConfig \in {Nil} \cup {Ptr(MkEvalConfig(p)) : p \in OptBool}
    /\ ctx = NewContext(FALSE)
    /\ evals \in {MkEvals(n) : n \in 0..MaxEvals}
    /\ InitCommon
    /\ input = Nil
    /\ output = Nil

\* The run command with config.timeout set: a batch of evals under one deadline,
\* against an LLM and an MCP server that fail only when the deadline has passed
InitTimed ==
    /\ envMode = "timed"
    /\ runConfig \in {Ptr(MkEvalConfig(p)) : p \in OptBool}
    /\ ctx = NewContext(TRUE)
    /\ evals \in {MkEvals(n) : n \in 1..MaxEvals}
    /\ InitCommon
    /\ input = Nil
    /\ output = Nil

\* One eval of a library caller who picks the prompt caching, the cache TTL and the
\* system prompts, against every size of tool catalog
InitParams ==
    /\ envMode = "params"
    /\ runConfig = Nil
    /\ ctx = NewContext(FALSE)
    /\ evals \in {<<[MkEval(1, Nil) EXCEPT !.AgentSystemPrompt = p]>> :
                    p \in {"", "eval prompt"}}
    /\ InitCommon
    /\ input = Nil
    /\ output = Nil

\* RunEval up to the loop: the trace and result are allocated, the MCP session is
\* loaded, the history is initialised
StartEval ==
    /\ pc = "call"
    /\ \E o \in Within(ctx, LoadOutcomes(envMode), LoadDeadline) :
        /\ trace' = NewTrace
        /\ result' = NewResult(evals[idx])
        /\ sessions' = Connect(sessions, idx, o)
        /\ IF o.err # <<>>
           THEN /\ ret' = [result |-> Nil, err |-> o.err]
                /\ session' = Nil
                /\ pc' = "ret"
                /\ UNCHANGED <<messages, tools>>
           ELSE /\ ret' = NoRet
                /\ tools' = ToolParams(config, o.catalog)
                /\ session' = Ptr(Len(sessions'))
                /\ messages' = <<NewUserMessage(<<TextBlock(evals[idx].Prompt)>>)>>
                /\ pc' = LoopNext(0, maxSteps)
    /\ ctx' = EvalContext(ctx)
    /\ UNCHANGED <<Config, Unit, now, expiredAt, idx, results, batchRet, finalText, stepNumber, step, message,
                   blockIdx, toolResults, llmRequests, mcpCalls, gradeCalls, gradeOutcome,
                   requests, phases>>

\* One iteration of the loop up to the stop-reason checks: a new step, the LLM
\* call, the stream, the step data, the assistant message
LLMStep ==
    /\ pc = "llm"
    /\ stepNumber' = stepNumber + 1
    /\ now' = now + 1
    /\ llmRequests' = Append(llmRequests, messages)
    /\ requests' = Append(requests, AgentRequest(config, result.Eval, tools))
    /\ phases' = Append(phases, "llm")
    /\ mcpCalls' = <<>>
    /\ toolResults' = <<>>
    /\ \E r \in Within(ctx, StreamOutcomes(envMode, stepNumber + 1, Len(messages)),
                      StreamDeadline) :
        /\ finalText' = WriteDeltas(finalText, Concat(r.deltas))
        /\ IF r.accErr # <<>> \/ r.streamErr # <<>>
           THEN /\ step' = FailStep(StartStep(stepNumber + 1, now), r.accErr \o r.streamErr)
                /\ trace' = [trace EXCEPT !.Steps = Append(@, step')]
                /\ ret' = IF r.accErr # <<>>
                          THEN StreamFailure("failed to accumulate event: ", r.accErr)
                          ELSE StreamFailure("streaming error: ", r.streamErr)
                /\ sessions' = Close(sessions, session)
                /\ pc' = "ret"
                /\ UNCHANGED <<messages, message, blockIdx>>
           ELSE /\ message' = [content |-> r.content, stopReason |-> r.stopReason]
                /\ messages' = AppendAssistant(messages, message')
                /\ IF AfterStream(r.stopReason) = "break"
                   THEN /\ step' = FinishStep(RecordStep(StartStep(stepNumber + 1, now), r),
                                              now')
                        /\ trace' = [trace EXCEPT !.Steps = Append(@, step')]
                        /\ pc' = "metrics"
                        /\ UNCHANGED blockIdx
                   ELSE /\ step' = RecordStep(StartStep(stepNumber + 1, now), r)
                        /\ blockIdx' = 1
                        /\ pc' = "tools"
                        /\ UNCHANGED trace
                /\ UNCHANGED <<ret, sessions>>
    /\ UNCHANGED <<Config, Unit, Clock, idx, results, batchRet, session, result, gradeCalls,
                   gradeOutcome, tools>>

\* One iteration of the tool loop over message.Content
ToolLoop ==
    /\ pc = "tools"
    /\ blockIdx <= Len(message.content)
    /\ blockIdx' = blockIdx + 1
    /\ IF message.content[blockIdx].type = "tool_use"
       THEN \E o \in Within(ctx, CallToolOutcomes(envMode), CallDeadline) :
                /\ now' = now + 1
                /\ phases' = Append(phases, "tool")
                /\ mcpCalls' = Append(mcpCalls,
                        [id |-> message.content[blockIdx].id, outcome |-> o,
                         session |-> session])
                /\ step' = [step EXCEPT !.ToolCalls =
                        AppendToolCall(@, executeAndTraceToolCall(message.content[blockIdx], o))]
                /\ toolResults' = AppendResult(toolResults,
                        ToolResultFor(message.content[blockIdx],
                                      executeAndTraceToolCall(message.content[blockIdx], o)))
       ELSE UNCHANGED <<now, mcpCalls, step, toolResults, phases>>
    /\ UNCHANGED <<Config, Unit, Clock, idx, results, batchRet, pc, sessions, session, trace, result, messages,
                   finalText, stepNumber, message, ret, llmRequests, gradeCalls, gradeOutcome,
                   tools, requests>>

\* The end of an iteration that executed the tool loop
EndStep ==
    /\ pc = "tools"
    /\ blockIdx > Len(message.content)
    /\ step' = FinishStep(step, now)
    /\ trace' = [trace EXCEPT !.Steps = Append(@, step')]
    /\ IF Len(toolResults) = 0
       THEN /\ pc' = "metrics"
            /\ UNCHANGED messages
       ELSE /\ messages' = AppendToolResults(messages, toolResults)
            /\ pc' = LoopNext(stepNumber, maxSteps)
    /\ UNCHANGED <<Config, Unit, Clock, now, idx, results, batchRet, sessions, session, result,
                   finalText, stepNumber, message, blockIdx, toolResults, ret, llmRequests, mcpCalls,
                   gradeCalls, gradeOutcome, tools, requests, phases>>

\* "Calculate trace metrics" and the EvalResult
CalcMetrics ==
    /\ pc = "metrics"
    /\ trace' = WithMetrics(trace)
    /\ result' = [result EXCEPT !.Result =
                    Ptr([Prompt |-> result.Eval.Prompt, RawResponse |-> finalText])]
    /\ pc' = "grade"
    /\ phases' = Append(phases, "metrics")
    /\ UNCHANGED <<Config, Unit, Clock, now, idx, results, batchRet, sessions, session, messages, finalText,
                   stepNumber, step, message, blockIdx, toolResults, ret, llmRequests,
                   mcpCalls, gradeCalls, gradeOutcome, tools, requests>>

\* Grading, the minimum scores, the grading cache metrics, the return.  When the
\* grading response holds no text block gradeWithTrace panics: the deferred
\* session.Close runs, the frames of RunEval and RunEvals are gone and nothing
\* recovers.
GradeEval ==
    /\ pc = "grade"
    /\ gradeCalls' = gradeCalls + 1
    /\ requests' = Append(requests,
                          GradingRequest(config,
                                         buildGradingPrompt(Deref(result.Result), trace)))
    /\ \E o \in Within(ctx, GradeOutcomes(envMode), GradeDeadline) :
        /\ gradeOutcome' = Ptr(o)
        /\ IF o.apiErr = <<>> /\ o.noText
           THEN /\ pc' = "panic"
                /\ trace' = NewTrace
                /\ result' = NewResult(ZeroEval)
                /\ ret' = NoRet
                /\ messages' = <<>>
                /\ finalText' = <<>>
                /\ stepNumber' = 0
                /\ step' = NewStep(0)
                /\ message' = ZeroMessage
                /\ blockIdx' = 0
                /\ toolResults' = <<>>
                /\ llmRequests' = <<>>
                /\ mcpCalls' = <<>>
                /\ tools' = <<>>
                /\ phases' = Append(phases, "grade")
           ELSE /\ phases' = Append(phases, "grade")
                            \o EnforcePhase(gradeWithTrace(result.Eval,
                                                           Deref(result.Result), o),
                                            enforce)
                /\ \E order \in KeyOrders(result.Eval.GradingRubric) :
                    result' = Graded(result,
                                     gradeWithTrace(result.Eval, Deref(result.Result), o),
                                     enforce, order)
                /\ trace' = WithGrading(trace,
                                    gradeWithTrace(result.Eval, Deref(result.Result), o))
                /\ ret' = [result |-> Ptr([Eval |-> result'.Eval, Result |-> result'.Result,
                                           Grade |-> result'.Grade, Error |-> result'.Error,
                                           Trace |-> Ptr(trace')]),
                           err |-> <<>>]
                /\ pc' = "ret"
                /\ UNCHANGED <<messages, finalText, stepNumber, step, message, blockIdx,
                               toolResults, llmRequests, mcpCalls, tools>>
    /\ sessions' = Close(sessions, session)
    /\ UNCHANGED <<Config, Unit, Clock, now, idx, results, batchRet, session>>

\* RunEvals takes RunEval's return value into results and moves on
RecordResult ==
    /\ pc = "ret"
    /\ results' = [results EXCEPT ![idx] = Recorded(evals[idx], ret)]
    /\ idx' = idx + 1
    /\ pc' = BatchNext(idx, Len(evals), ret)
    /\ session' = Nil
    /\ trace' = NewTrace
    /\ result' = NewResult(ZeroEval)
    /\ messages' = <<>>
    /\ finalText' = <<>>
    /\ stepNumber' = 0
    /\ step' = NewStep(0)
    /\ message' = ZeroMessage
    /\ blockIdx' = 0
    /\ toolResults' = <<>>
    /\ ret' = NoRet
    /\ llmRequests' = <<>>
    /\ mcpCalls' = <<>>
    /\ gradeCalls' = 0
    /\ gradeOutcome' = Nil
    /\ tools' = <<>>
    /\ requests' = <<>>
    /\ phases' = <<>>
    /\ UNCHANGED <<Config, Unit, Clock, now, batchRet, sessions>>

\* RunEvals returns
ReturnBatch ==
    /\ pc = "return"
    /\ batchRet' = Ptr([results |-> results, err |-> <<>>])
    /\ pc' = "done"
    /\ UNCHANGED <<Config, Unit, Clock, now, idx, results, sessions, Locals>>

Next ==
    \/ StartEval
    \/ LLMStep
    \/ ToolLoop
    \/ EndStep
    \/ CalcMetrics
    \/ GradeEval
    \/ RecordResult
    \/ ReturnBatch

\* The deadline of the context passes
Expire ==
    /\ ctx.deadline
    /\ ~ctx.expired
    /\ pc \in {"call", "llm", "tools", "metrics", "grade", "ret"}
    /\ ctx' = [ctx EXCEPT !.expired = TRUE]
    /\ expiredAt' = IF pc = "ret" THEN idx + 1 ELSE idx
    /\ UNCHANGED <<Config, Unit, now, idx, results, batchRet, pc, sessions, Locals>>

NextTimed ==
    \/ Next
    \/ Expire

Spec == Init /\ [][Next]_vars

SpecTimed == InitTimed /\ [][NextTimed]_vars

SpecParams == InitParams /\ [][Next]_vars

----------------------------------------------------------------------------
\* Functions applied on their own

\* The client at rest: no eval is running
InitIdle ==
    /\ envMode = "lean"
    /\ runConfig = Ptr(MkEvalConfig(Nil))
    /\ ctx = NewContext(FALSE)
    /\ evals = <<>>
    /\ maxSteps = 1
    /\ InitCommon
    /\ output = Nil

\* The variables of the client, which a function applied on its own leaves alone
Client == <<Config, Clock, now, idx, results, batchRet, pc, sessions, Locals>>

\* validDimensions
ValidDimensions == {"accuracy", "completeness", "relevance", "clarity", "reasoning"}

RECURSIVE ValidateDimensions(_)
\* The loop over r.Dimensions: the error of the first invalid entry
ValidateDimensions(dims) ==
    IF dims = <<>> THEN <<>>
    ELSE IF dims[1] \notin ValidDimensions
    THEN <<"invalid dimension '", dims[1],
           "': must be one of: accuracy, completeness, relevance, clarity, reasoning">>
    ELSE ValidateDimensions(Tail(dims))

RECURSIVE ValidateMinimumsLax(_, _)
\* ValidateMinimums accepting a minimum of 0
ValidateMinimumsLax(ms, order) ==
    IF order = <<>> THEN <<>>
    ELSE IF order[1] \notin ValidDimensions
    THEN <<"invalid dimension in minimum_scores '", order[1],
           "': must be one of: accuracy, completeness, relevance, clarity, reasoning">>
    ELSE IF ms[order[1]] < 0 \/ ms[order[1]] > 5
    THEN <<"minimum score for '", order[1], "' must be between 1 and 5, got ",
           ToString(ms[order[1]])>>
    ELSE ValidateMinimumsLax(ms, Tail(order))

RECURSIVE ValidateMinimums(_, _)
\* The loop over r.MinimumScores, visiting the keys in order: the error of the
\* first key that is no dimension or whose score is outside 1..5
ValidateMinimums(ms, order) ==
    IF order = <<>> THEN <<>>
    ELSE IF order[1] \notin ValidDimensions
    THEN <<"invalid dimension in minimum_scores '", order[1],
           "': must be one of: accuracy, completeness, relevance, clarity, reasoning">>
    ELSE IF ms[order[1]] < 1 \/ ms[order[1]] > 5
    THEN <<"minimum score for '", order[1], "' must be between 1 and 5, got ",
           ToString(ms[order[1]])>>
    ELSE ValidateMinimums(ms, Tail(order))

\* (*GradingRubric).Validate
Validate(r, order) ==
    IF r = Nil THEN <<>>
    ELSE IF ValidateDimensions(Deref(r).Dimensions) # <<>>
    THEN ValidateDimensions(Deref(r).Dimensions)
    ELSE ValidateMinimums(Deref(r).MinimumScores, order)

\* The rubrics handed to Validate: up to two entries of dimensions and up to two
\* minimum scores, over dimensions and a name that is none, and over minimums
\* inside and on both sides of 1..5
ValidateRubrics ==
    {Nil} \cup
    {Ptr([Dimensions |-> dims, MinimumScores |-> ms]) :
        dims \in UNION {[1..n -> {"accuracy", "reasoning", "speed"}] : n \in 0..2},
        ms \in UNION {[keys -> {0, 1, 5, 6}] : keys \in SUBSET {"clarity", "speed"}}}

InitValidate ==
    /\ InitIdle
    /\ input \in [rubric : ValidateRubrics]

\* r.Validate()
CallValidate ==
    /\ output = Nil
    /\ \E order \in KeyOrders(input.rubric) :
        output' = Ptr([err |-> Validate(input.rubric, order)])
    /\ UNCHANGED <<Client, input>>

SpecValidate == InitValidate /\ [][CallValidate]_vars

\* The grading responses handed to the extractor: a JSON value or a piece of one,
\* after nothing, a fence or prose, and before nothing, a fence, prose or more JSON
ResponseTexts ==
    {lead \o core \o trail :
        lead \in {<<>>, <<" ">>, <<"fence", "json", "\n">>, <<"fence", "\n">>,
                  <<"fence", "json", "fence">>, <<"text", " ">>, <<"text", "\n">>},
        core \in {<<>>, <<"{", "scores", "}">>, <<"{", "}">>, <<"[", "{", "}", "]">>,
                  <<"[", "1", "]">>, <<"1">>, <<"text">>, <<"{", "scores">>,
                  <<"{", "\n", "scores", "\n", "}">>, <<"[", "1", "]", "\n", "{", "}">>},
        trail \in {<<>>, <<"\n", "fence">>, <<" ", "text">>, <<"\n", "text">>,
                   <<"\n", "text", " ", "{", "}">>, <<"}">>}}

InitExtract ==
    /\ InitIdle
    /\ input \in [text : ResponseTexts]

\* extractJSONFromResponse(rawResponse), and gradeWithTrace on a response with
\* that text
CallExtract ==
    /\ output = Nil
    /\ output' = Ptr([extracted |-> extractJSONFromResponse(input.text),
                      graded |-> gradeWithTrace(ZeroEval,
                                                [Prompt |-> <<>>, RawResponse |-> <<>>],
                                                [GradeOk(5) EXCEPT !.raw = input.text])])
    /\ UNCHANGED <<Client, input>>

SpecExtract == InitExtract /\ [][CallExtract]_vars

\* sum of hasFailures
SumOfScores(grade) ==
    grade.Accuracy + grade.Completeness + grade.Relevance + grade.Clarity + grade.Reasoning

RECURSIVE hasFailuresAtThree(_)
\* hasFailures failing an average of 3.0 as well
hasFailuresAtThree(rs) ==
    IF rs = <<>> THEN FALSE
    ELSE IF rs[1].Error # <<>> THEN TRUE
    ELSE IF rs[1].Grade # Nil /\ SumOfScores(Deref(rs[1].Grade)) * 10 <= 30 * 5 THEN TRUE
    ELSE hasFailuresAtThree(Tail(rs))

RECURSIVE hasFailures(_)
\* hasFailures; avg := float64(sum) / 5.0 is exact in tenths, so avg < 3.0 is
\* compared as sum * 10 < 30 * 5
hasFailures(rs) ==
    IF rs = <<>> THEN FALSE
    ELSE IF rs[1].Error # <<>> THEN TRUE
    ELSE IF rs[1].Grade # Nil /\ SumOfScores(Deref(rs[1].Grade)) * 10 < 30 * 5 THEN TRUE
    ELSE hasFailures(Tail(rs))

\* The exit code of the command once the evals have run and the report is
\* printed: Run returns an error when hasFailures, main exits with 1 on an error
ExitCode(rs) == IF hasFailures(rs) THEN 1 ELSE 0

\* The grades of the results handed to hasFailures: sums of 0, 5, 14, 15, 16, 25
ExitGrades ==
    {UnmarshalGrade(<<>>),
     [MkGrade(1) EXCEPT !.Completeness = 1, !.Relevance = 1, !.Clarity = 1, !.Reasoning = 1],
     [MkGrade(2) EXCEPT !.Completeness = 3, !.Relevance = 3, !.Clarity = 3, !.Reasoning = 3],
     [MkGrade(3) EXCEPT !.Completeness = 3, !.Relevance = 3, !.Clarity = 3, !.Reasoning = 3],
     [MkGrade(5) EXCEPT !.Completeness = 5, !.Relevance = 3, !.Clarity = 1, !.Reasoning = 1],
     [MkGrade(4) EXCEPT !.Completeness = 3, !.Relevance = 3, !.Clarity = 3, !.Reasoning = 3],
     MkGrade(5)}

\* The results the command can hold: RunEval failed (Error only), grading failed
\* (Error only), a grade, or a grade with a minimum-score error
ExitResults ==
    {[ZeroResult EXCEPT !.Error = <<"streaming error: ", "eof">>]}
        \cup {[ZeroResult EXCEPT !.Grade = Ptr(g)] : g \in ExitGrades}
        \cup {[ZeroResult EXCEPT !.Grade = Ptr(g),
                                 !.Error = <<"eval failed minimum score requirements: ">>] :
                g \in ExitGrades}

InitExit ==
    /\ InitIdle
    /\ input \in [results : UNION {[1..n -> ExitResults] : n \in 0..2}]

\* The end of RunCmd.Run and of main
CallExit ==
    /\ output = Nil
    /\ output' = Ptr([code |-> ExitCode(input.results)])
    /\ UNCHANGED <<Client, input>>

SpecExit == InitExit /\ [][CallExit]_vars

\* The minimum_scores maps handed to CheckMinimumScores: over two of the five
\* dimensions and a name that is none of them
Rubrics ==
    {Nil} \cup
    {Ptr([MinimumScores |-> ms]) :
        ms \in UNION {[keys -> {0, 3, 5}] : keys \in SUBSET {"accuracy", "reasoning", "speed"}}}

\* The grades handed to CheckMinimumScores
Grades == {[MkGrade(a) EXCEPT !.Reasoning = r] : a \in {1, 3, 5}, r \in {2, 3}}

InitCheckMinimumScores ==
    /\ InitIdle
    /\ input \in [r : Rubrics, grade : Grades]

\* r.CheckMinimumScores(grade)
CallCheckMinimumScores ==
    /\ output = Nil
    /\ \E order \in KeyOrders(input.r) :
        output' = Ptr([err |-> CheckMinimumScores(input.r, input.grade, order)])
    /\ UNCHANGED <<Client, input>>

SpecCheckMinimumScores == InitCheckMinimumScores /\ [][CallCheckMinimumScores]_vars

SpecBatch == InitBatch /\ [][Next]_vars

----------------------------------------------------------------------------
\* Properties

Running == pc \in {"llm", "tools", "metrics", "grade", "ret"}

LastStep == trace.Steps[Len(trace.Steps)]

\* The last step hit the cap while the model was still asking for tools
CapReached ==
    /\ Len(trace.Steps) = maxSteps
    /\ LastStep.StopReason = "tool_use"
    /\ LastStep.ToolCalls # <<>>

\* C1: an eval never makes more than max_steps LLM calls and its trace never
\* holds more than max_steps steps; when the cap is reached on a tool_use step the
\* loop ends without an error and the text accumulated so far is graded.
C1_StepCap ==
    /\ Len(llmRequests) <= maxSteps
    /\ Len(trace.Steps) <= maxSteps
    /\ stepNumber <= maxSteps
    /\ \A k \in 1..Len(results) :
        results[k].Trace # Nil => Len(Deref(results[k].Trace).Steps) <= maxSteps
    /\ CapReached =>
        /\ pc \in {"metrics", "grade", "ret"}
        /\ ret.err = <<>>
        /\ pc = "ret" =>
            /\ gradeCalls = 1
            /\ ret.result # Nil
            /\ Deref(Deref(ret.result).Result).RawResponse = finalText
            /\ trace.Grading # Nil
            /\ Deref(trace.Grading).ModelResponse = finalText

C1_Witness ==
    /\ pc = "ret"
    /\ maxSteps = 2
    /\ CapReached
    /\ Len(llmRequests) = maxSteps
    /\ gradeCalls = 1
    /\ Len(finalText) = 2
    /\ ret.err = <<>>

\* The entries of results that RunEvals has written, and those it has not
C2_Slots ==
    /\ Len(results) = Len(evals)
    /\ idx \in 1..(Len(evals) + 1)
    /\ \A k \in 1..Len(evals) :
        IF k < idx THEN results[k].Eval = evals[k] ELSE results[k] = ZeroResult
    /\ Running => idx <= Len(evals) /\ result.Eval = evals[idx]
    /\ pc \in {"return", "done"} => idx = Len(evals) + 1
    /\ batchRet # Nil =>
        /\ pc = "done"
        /\ Deref(batchRet).err = <<>>
        /\ Deref(batchRet).results = results

\* What RunEvals does with the return value of RunEval
C2_Record ==
    pc = "ret" =>
        /\ idx' = idx + 1
        /\ results'[idx].Eval = evals[idx]
        /\ ret.err # <<>> => results'[idx].Error = ret.err
        /\ ret.err = <<>> => results'[idx] = Deref(ret.result)
        /\ \A k \in 1..Len(evals) : k # idx => results'[k] = results[k]
        /\ pc' = IF idx < Len(evals) THEN "call" ELSE "return"

\* C2: RunEvals returns one result per eval in the declared order, runs the evals
\* one at a time, records a fatal error of an eval in that eval's result and goes
\* on with the next eval, and never returns an error itself.
C2_Batch == [](C2_Slots) /\ [][C2_Record]_vars

C2_Witness ==
    /\ pc = "done"
    /\ Len(evals) = 2
    /\ results[1].Error # <<>>
    /\ results[1].Trace = Nil
    /\ results[2].Grade # Nil
    /\ results[2].Error = <<>>

\* The error RunEval returns when the LLM stream of a step failed
IsStreamFailure(err) ==
    /\ err # <<>>
    /\ err[1] \in {"streaming error: ", "failed to accumulate event: "}

\* C3 (as claimed): the result recorded for an eval that ended with a fatal error
\* after its loop had started carries the partial trace, the failed step included.
C3_PartialTraceKept ==
    \A k \in 1..Len(results) :
        IsStreamFailure(results[k].Error) =>
            /\ results[k].Trace # Nil
            /\ Deref(results[k].Trace).Steps # <<>>
            /\ Deref(results[k].Trace).Steps[Len(Deref(results[k].Trace).Steps)].Error # <<>>

\* A tool call that did not do its work, however the failure is reported
ToolFailed(o) == o.err # <<>> \/ o.isError

\* C4 (as claimed): a failed tool call is recorded with success=false in the
\* current step, its tool result is fed back to the model, the loop makes the next
\* LLM call unless the cap is reached, and RunEval returns no error for it.
C4_ToolFailureNotFatal ==
    \A k \in 1..Len(mcpCalls) :
        ToolFailed(mcpCalls[k].outcome) =>
            /\ k <= Len(step.ToolCalls)
            /\ step.ToolCalls[k].ToolID = mcpCalls[k].id
            /\ step.ToolCalls[k].Success = FALSE
            /\ k <= Len(toolResults)
            /\ toolResults[k].tool_use_id = mcpCalls[k].id
            /\ ret.err = <<>>
            /\ pc # "tools" =>
                /\ messages[Len(messages)] = NewUserMessage(toolResults)
                /\ stepNumber < maxSteps => pc = "llm"
                /\ stepNumber = maxSteps => pc \in {"metrics", "grade", "ret"}

\* C5 (as claimed): every tool invocation that fails, by a transport error or by
\* the isError flag of the response, is recorded with success=false and a non-empty
\* error and is fed back with is_error=true.
C5_FailureRecorded ==
    \A k \in 1..Len(mcpCalls) :
        ToolFailed(mcpCalls[k].outcome) =>
            /\ k <= Len(step.ToolCalls)
            /\ ~step.ToolCalls[k].Success
            /\ step.ToolCalls[k].Error # <<>>
            /\ k <= Len(toolResults)
            /\ toolResults[k].is_error

\* The content C6 as claimed gives the tool-result block of a tool call
OutputOf(toolCall) == toolCall.Output

\* The content C6 as amended gives the tool-result block of a tool call
OutputOrErrorText(toolCall) ==
    IF toolCall.Success THEN toolCall.Output
    ELSE <<"Error calling tool: ">> \o toolCall.Error

\* The tool-result blocks `blocks` answer the tool calls `calls`, block by block
Mirrors(blocks, calls, amended) ==
    /\ Len(blocks) = Len(calls)
    /\ \A k \in 1..Len(blocks) :
        /\ blocks[k].type = "tool_result"
        /\ blocks[k].is_error = ~calls[k].Success
        /\ blocks[k].content =
            IF amended THEN OutputOrErrorText(calls[k]) ELSE OutputOf(calls[k])

\* Every tool-result block collected or already in the history answers its call
AllMirror(amended) ==
    /\ pc = "tools" => Mirrors(toolResults, step.ToolCalls, amended)
    /\ \A n \in 1..Len(trace.Steps) :
        2 * n + 1 <= Len(messages) =>
            Mirrors(messages[2 * n + 1].content, trace.Steps[n].ToolCalls, amended)

\* C6 (as claimed): the tool-result block of every executed tool call has the
\* ToolCall's output JSON as content and is_error = ~success.
C6_ResultIsOutput == AllMirror(FALSE)

\* C6 (amended): the tool-result block of every executed tool call has
\* is_error = ~success; its content is the ToolCall's output JSON when success is
\* true and the text "Error calling tool: " followed by the ToolCall's error when
\* success is false.
C6_ResultMirrorsCall == AllMirror(TRUE)

C6_Witness ==
    /\ pc = "llm"
    /\ Len(messages) = 3
    /\ Len(messages[3].content) = 2
    /\ messages[3].content[1].is_error
    /\ messages[3].content[1].content = <<"Error calling tool: ", "connection closed">>
    /\ ~messages[3].content[2].is_error
    /\ messages[3].content[2].content = trace.Steps[1].ToolCalls[2].Output

RECURSIVE ToolUseIds(_)
\* The ids of the tool_use blocks of a message content, in order
ToolUseIds(content) ==
    IF content = <<>> THEN <<>>
    ELSE (IF content[1].type = "tool_use" THEN <<content[1].id>> ELSE <<>>)
            \o ToolUseIds(Tail(content))

Field(seq, f) == [k \in 1..Len(seq) |-> seq[k][f]]

\* The step whose tool loop ran to its end is the last of the trace
ToolStepDone ==
    /\ Running
    /\ stepNumber > 0
    /\ Len(trace.Steps) = stepNumber
    /\ LastStep.StopReason = "tool_use"

\* C7: within a step the tools are called one after the other in the order of the
\* tool_use blocks of the message; the step's tool_calls and the tool-result blocks
\* of the follow-up user message are in that order, one per tool_use block, each
\* tool result carrying the id of its block.
C7_ToolOrder ==
    /\ pc = "tools" =>
        /\ Field(mcpCalls, "id") = ToolUseIds(SubSeq(message.content, 1, blockIdx - 1))
        /\ Field(step.ToolCalls, "ToolID") = Field(mcpCalls, "id")
        /\ Field(toolResults, "tool_use_id") = Field(mcpCalls, "id")
    /\ ToolStepDone =>
        /\ Field(mcpCalls, "id") = ToolUseIds(message.content)
        /\ Field(LastStep.ToolCalls, "ToolID") = ToolUseIds(message.content)
        /\ ToolUseIds(message.content) # <<>> =>
            /\ messages[Len(messages)].role = "user"
            /\ Field(messages[Len(messages)].content, "tool_use_id")
                    = ToolUseIds(message.content)
            /\ messages[Len(messages) - 1] = ToParam(message)

C7_Witness ==
    /\ ToolStepDone
    /\ pc = "llm"
    /\ stepNumber = 1
    /\ Field(LastStep.ToolCalls, "ToolID") = << <<1, 1>>, <<1, 3>> >>
    /\ Field(messages[3].content, "tool_use_id") = << <<1, 1>>, <<1, 3>> >>

\* The history h has the shape the LLM expects for an eval with this prompt
WellShaped(h, prompt) ==
    /\ h # <<>>
    /\ h[1] = NewUserMessage(<<TextBlock(prompt)>>)
    /\ \A j \in 1..Len(h) : h[j].role = IF j % 2 = 1 THEN "user" ELSE "assistant"
    /\ \A j \in 2..Len(h) :
        h[j].role = "user" =>
            /\ h[j].content # <<>>
            /\ \A k \in 1..Len(h[j].content) : h[j].content[k].type = "tool_result"
            /\ Field(h[j].content, "tool_use_id") = ToolUseIds(h[j - 1].content)

\* C8: at every LLM call the history starts with the user message holding the
\* prompt and alternates assistant / user; a tool-result user message directly
\* follows the assistant message holding the matching tool_use blocks.
C8_HistoryShape ==
    /\ \A q \in 1..Len(llmRequests) :
        /\ WellShaped(llmRequests[q], result.Eval.Prompt)
        /\ Len(llmRequests[q]) = 2 * q - 1
    /\ messages # <<>> => WellShaped(messages, result.Eval.Prompt)

C8_Witness ==
    /\ Len(llmRequests) = 2
    /\ Len(llmRequests[2]) = 3
    /\ llmRequests[2][3].role = "user"
    /\ Len(llmRequests[2][3].content) = 2
    /\ llmRequests[2][2].role = "assistant"

HasToolUse(content) == \E k \in 1..Len(content) : content[k].type = "tool_use"

\* The last LLM call of the eval ended without a stream error and its step is done
StepDone ==
    /\ Running
    /\ pc # "tools"
    /\ Len(llmRequests) > 0
    /\ ret.err = <<>>

\* C9: after a step whose stream did not fail, another LLM call follows if and
\* only if the stop reason is tool_use, the message holds a tool_use block and
\* fewer than max_steps steps have run; otherwise the loop ends without an error,
\* the step is in the trace without an error, and no tool runs for a stop reason
\* other than tool_use.
C9_LoopContinuation ==
    /\ StepDone =>
        /\ Len(trace.Steps) = stepNumber
        /\ LastStep.StepNumber = stepNumber
        /\ LastStep.StopReason = message.stopReason
        /\ LastStep.Error = <<>>
        /\ pc = "llm" <=>
            /\ message.stopReason = "tool_use"
            /\ HasToolUse(message.content)
            /\ stepNumber < maxSteps
        /\ pc # "llm" => pc \in {"metrics", "grade", "ret"}
    /\ pc = "llm" => ENABLED LLMStep
    /\ pc = "tools" => message.stopReason = "tool_use"
    /\ mcpCalls # <<>> => message.stopReason = "tool_use"
    /\ step.ToolCalls # <<>> => step.StopReason = "tool_use"
    /\ \A n \in 1..Len(trace.Steps) :
        trace.Steps[n].StopReason # "tool_use" => trace.Steps[n].ToolCalls = <<>>

C9_Witness ==
    /\ StepDone
    /\ pc = "metrics"
    /\ stepNumber < maxSteps
    /\ message.stopReason = "max_tokens"
    /\ HasToolUse(message.content)
    /\ LastStep.ToolCalls = <<>>

\* C10: when the LLM stream of a step fails, the step is appended to the trace with
\* its error set, no tool is called in that step, no further LLM call and no
\* grading call is made, and RunEval returns an error.
C10_StreamFailure ==
    /\ (pc = "ret" /\ ret.err # <<>> /\ Len(llmRequests) > 0) =>
        /\ Len(trace.Steps) = Len(llmRequests)
        /\ LastStep.StepNumber = stepNumber
        /\ LastStep.Error # <<>>
        /\ LastStep.ToolCalls = <<>>
        /\ mcpCalls = <<>>
        /\ gradeCalls = 0
        /\ ret.result = Nil
        /\ IsStreamFailure(ret.err)
    /\ \A n \in 1..Len(trace.Steps) :
        trace.Steps[n].Error # <<>> =>
            /\ n = Len(trace.Steps)
            /\ pc = "ret"
            /\ ret.err # <<>>
            /\ ret.result = Nil
            /\ Len(llmRequests) = n
            /\ gradeCalls = 0

C10_Witness ==
    /\ pc = "ret"
    /\ stepNumber = 2
    /\ Len(trace.Steps) = 2
    /\ trace.Steps[1].ToolCalls # <<>>
    /\ LastStep.Error = <<"context deadline exceeded">>
    /\ ret.err = <<"streaming error: ", "context deadline exceeded">>

\* The response of the grading call holds no JSON object
NoObject(o) == o.apiErr = <<>> /\ \A k \in DOMAIN o.raw : o.raw[k] # "{"

\* The grading call failed or its response could not be parsed into a grade
GradingFailed(o) == o.apiErr # <<>> \/ NoObject(o) \/ o.unmarshalErr # <<>>

\* The diagnostic of the failure
GradingCause(o) ==
    IF o.apiErr # <<>> THEN o.apiErr
    ELSE IF NoObject(o) THEN <<"invalid character">>
    ELSE o.unmarshalErr

\* The result r of an eval whose grading failed keeps everything but the grade
KeepsRun(r, prompt) ==
    /\ r.Result # Nil
    /\ Deref(r.Result).Prompt = prompt
    /\ r.Grade = Nil
    /\ r.Error # <<>>
    /\ r.Error[1] = "grading failed: "
    /\ r.Trace # Nil
    /\ Deref(r.Trace).Steps # <<>>
    /\ Deref(r.Trace).StepCount = Len(Deref(r.Trace).Steps)
    /\ \A n \in 1..Len(Deref(r.Trace).Steps) : Deref(r.Trace).Steps[n].Error = <<>>
    /\ Deref(r.Trace).Grading # Nil
    /\ Deref(Deref(r.Trace).Grading).Error # <<>>
    /\ r.Error = <<"grading failed: ", r.Error[2]>> \o Deref(Deref(r.Trace).Grading).Error

\* C11: when the grading call fails or its response cannot be parsed into a grade,
\* RunEval returns a result and no error: Result holds the prompt and the raw
\* response, Grade is nil, Error is the grading failure, the trace holds every step
\* of the loop and trace.Grading is the grading trace with its error set.
C11_GradingFailureKept ==
    /\ (pc = "ret" /\ gradeOutcome # Nil /\ GradingFailed(Deref(gradeOutcome))) =>
        /\ ret.err = <<>>
        /\ ret.result # Nil
        /\ KeepsRun(Deref(ret.result), evals[idx].Prompt)
        /\ Deref(Deref(ret.result).Result).RawResponse = finalText
        /\ Deref(Deref(ret.result).Trace).Steps = trace.Steps
        /\ Len(trace.Steps) = Len(llmRequests)
        /\ Deref(Deref(Deref(ret.result).Trace).Grading).Error
                = GradingCause(Deref(gradeOutcome))
    /\ \A k \in 1..Len(results) :
        (results[k].Error # <<>> /\ results[k].Error[1] = "grading failed: ") =>
            KeepsRun(results[k], evals[k].Prompt)

C11_Witness ==
    /\ pc = "ret"
    /\ gradeOutcome = Ptr(GradeParseError)
    /\ Len(trace.Steps) = 2
    /\ trace.Steps[1].ToolCalls # <<>>
    /\ Deref(ret.result).Error
        = <<"grading failed: ", "failed to parse grading response: ",
            "invalid character">>
    /\ Deref(trace.Grading).RawGradingOutput = <<"text", " ", "text">>

\* The grading call of the running eval produced a grade
GradedOk == pc = "ret" /\ gradeOutcome # Nil /\ ~GradingFailed(Deref(gradeOutcome))

\* The minimum scores of the rubric of an eval (none without a rubric)
MinimumsOf(eval) ==
    IF eval.GradingRubric = Nil THEN <<>> ELSE Deref(eval.GradingRubric).MinimumScores

\* The dimensions of grade below the minimum the eval asks for
BelowMinimum(eval, grade) ==
    {d \in DOMAIN MinimumsOf(eval) : ScoreOf(grade, d) < MinimumsOf(eval)[d]}

\* C12: with minimum-score enforcement on, when grading succeeds and a rubric
\* minimum is not met the result's Error is the minimum-score error naming each
\* failing dimension, the Grade stays populated and the trace keeps all steps and
\* the grading trace; when every minimum is met (score >= minimum) Error is nil.
C12_MinimumScores ==
    (enforce /\ GradedOk) =>
        /\ ret.err = <<>>
        /\ Deref(ret.result).Grade = Ptr(Deref(gradeOutcome).grade)
        /\ Deref(ret.result).Trace = Ptr(trace)
        /\ Len(trace.Steps) = Len(llmRequests)
        /\ trace.Grading # Nil
        /\ Deref(trace.Grading).Error = <<>>
        /\ IF BelowMinimum(evals[idx], Deref(gradeOutcome).grade) = {}
           THEN Deref(ret.result).Error = <<>>
           ELSE /\ Deref(ret.result).Error # <<>>
                /\ Deref(ret.result).Error[1] = "eval failed minimum score requirements: "
                /\ \A d \in BelowMinimum(evals[idx], Deref(gradeOutcome).grade) :
                    \E j \in 1..Len(Deref(ret.result).Error) : Deref(ret.result).Error[j] = d

C12_Witness ==
    /\ GradedOk
    /\ enforce
    /\ Deref(gradeOutcome).grade.Accuracy = 3
    /\ Deref(ret.result).Grade # Nil
    /\ Deref(ret.result).Error
        = <<"eval failed minimum score requirements: ", "accuracy", ": got ", "3",
            ", required ", "4", ". Review grading criteria or adjust rubric thresholds">>
    /\ Len(trace.Steps) = 2

\* C13 (as claimed): for evals run through the run command, enforce_minimum_scores
\* set to false in the evaluation config leaves the Error of a result graded below
\* a rubric minimum nil; with the field absent the minimums are enforced.
C13_ConfigSwitch ==
    (runConfig # Nil /\ GradedOk
        /\ BelowMinimum(evals[idx], Deref(gradeOutcome).grade) # {}) =>
        IF Deref(runConfig).EnforceMinimumScores = Ptr(FALSE)
        THEN Deref(ret.result).Error = <<>>
        ELSE Deref(ret.result).Error # <<>>

\* The sessions that are open
OpenSessions == {k \in 1..Len(sessions) : sessions[k].open}

C15_AfterExpiry ==
    /\ Len(results) = Len(evals)
    /\ \A k \in 1..Len(evals) :
        k < idx =>
            /\ results[k].Eval = evals[k]
            /\ results[k].Error # <<>> <=> (expiredAt # 0 /\ k >= expiredAt)
    /\ ctx.expired <=> expiredAt # 0
    /\ batchRet # Nil => Len(Deref(batchRet).results) = Len(evals)

\* A deadline that has passed stays passed, for this eval and for the next ones
C15_NoRestart == ctx.expired => (ctx'.expired /\ expiredAt' = expiredAt)

RECURSIVE Total(_, _, _)
\* The sum of f over the first n steps
Total(steps, f, n) == IF n = 0 THEN 0 ELSE Total(steps, f, n - 1) + steps[n][f]

RECURSIVE TotalCalls(_, _)
\* The number of ToolCalls of the first n steps
TotalCalls(steps, n) ==
    IF n = 0 THEN 0 ELSE TotalCalls(steps, n - 1) + Len(steps[n].ToolCalls)

\* What the grading trace of tr adds to a cache total
GradingShare(tr, f) == IF tr.Grading = Nil THEN 0 ELSE Deref(tr.Grading)[f]

\* The aggregates of tr are those of its steps and of its grading trace
Derivable(tr) ==
    /\ tr.StepCount = Len(tr.Steps)
    /\ tr.TotalInputTokens = Total(tr.Steps, "InputTokens", Len(tr.Steps))
    /\ tr.TotalOutputTokens = Total(tr.Steps, "OutputTokens", Len(tr.Steps))
    /\ tr.ToolCallCount = TotalCalls(tr.Steps, Len(tr.Steps))
    /\ tr.TotalCacheCreationTokens =
        Total(tr.Steps, "CacheCreationInputTokens", Len(tr.Steps))
            + GradingShare(tr, "CacheCreationInputTokens")
    /\ tr.TotalCacheReadTokens =
        Total(tr.Steps, "CacheReadInputTokens", Len(tr.Steps))
            + GradingShare(tr, "CacheReadInputTokens")

Numbered(steps) == \A n \in 1..Len(steps) : steps[n].StepNumber = n

\* C17: in every trace the step at index i (0-based) has step_number i+1: the
\* numbers start at 1 and go up by one per step without a gap or a repeat, a step
\* that ended with a stream error included.
C17_StepNumbers ==
    /\ Numbered(trace.Steps)
    /\ pc = "tools" => step.StepNumber = Len(trace.Steps) + 1
    /\ \A k \in 1..Len(results) :
        results[k].Trace # Nil => Numbered(Deref(results[k].Trace).Steps)

C17_Witness ==
    /\ pc = "ret"
    /\ Len(trace.Steps) = 2
    /\ trace.Steps[1].StepNumber = 1
    /\ trace.Steps[1].ToolCalls # <<>>
    /\ trace.Steps[2].StepNumber = 2
    /\ trace.Steps[2].Error # <<>>

\* The times of a step fit together
Timed(st) == st.StartTime <= st.EndTime /\ st.Duration = st.EndTime - st.StartTime

\* C18 (as claimed): every step appended to a trace, a step aborted by a stream
\* error included, has start_time <= end_time and duration = end_time - start_time.
C18_StepTimes ==
    /\ \A n \in 1..Len(trace.Steps) : Timed(trace.Steps[n])
    /\ \A k \in 1..Len(results) :
        results[k].Trace # Nil =>
            \A n \in 1..Len(Deref(results[k].Trace).Steps) :
                Timed(Deref(results[k].Trace).Steps[n])

\* The part of C18 that holds: the steps that did not end with a stream error
C18_CompletedStepTimes ==
    \A n \in 1..Len(trace.Steps) :
        trace.Steps[n].Error = <<>> =>
            /\ Timed(trace.Steps[n])
            /\ trace.Steps[n].StartTime > ZeroTime

\* The string a JSON string encoding stands for
UnescapeJSON(enc) ==
    [k \in 1..Len(enc) |->
        IF enc[k] = "\\n" THEN "\n" ELSE IF enc[k] = "\\\"" THEN "\"" ELSE enc[k]]

\* json is a JSON object with the single key `key`, holding a string
IsObject(json, key) ==
    /\ Len(json) >= 8
    /\ SubSeq(json, 1, 6) = <<"{", "\"", key, "\"", ":", "\"">>
    /\ SubSeq(json, Len(json) - 1, Len(json)) = <<"\"", "}">>
    /\ \A k \in 7..(Len(json) - 2) : json[k] # "\""

\* The string such an object holds
ValueOf(json) == UnescapeJSON(SubSeq(json, 7, Len(json) - 2))

\* A ToolCall record whose success, error and output fit together
Consistent(tc) ==
    IF tc.Success
    THEN /\ tc.Error = <<>>
         /\ IsObject(tc.Output, "result")
    ELSE /\ tc.Error # <<>>
         /\ IsObject(tc.Output, "error")
         /\ ValueOf(tc.Output) = tc.Error

\* C19: every ToolCall record of the tracer with success=false has a non-empty
\* error and as output a JSON object whose "error" key holds that message; every
\* record with success=true has an empty error and as output a JSON object with a
\* "result" key.
C19_ToolCallRecord ==
    /\ \A k \in 1..Len(step.ToolCalls) : Consistent(step.ToolCalls[k])
    /\ \A n \in 1..Len(trace.Steps) :
        \A k \in 1..Len(trace.Steps[n].ToolCalls) : Consistent(trace.Steps[n].ToolCalls[k])
    /\ \A k \in 1..Len(mcpCalls) :
        (k <= Len(step.ToolCalls) /\ step.ToolCalls[k].Success) =>
            ValueOf(step.ToolCalls[k].Output)
                = Join(ContentParts(mcpCalls[k].outcome.content), <<"\n">>)

C19_Witness ==
    /\ pc = "tools"
    /\ Len(step.ToolCalls) = 2
    /\ ~step.ToolCalls[1].Success
    /\ step.ToolCalls[1].Error = <<"connection closed">>
    /\ step.ToolCalls[1].Output = <<"{", "\"", "error", "\"", ":", "\"", "connection closed", "\"", "}">>
    /\ step.ToolCalls[2].Success
    /\ step.ToolCalls[2].Output
        = <<"{", "\"", "result", "\"", ":", "\"", "8", "\\n", "[Image: ", "image/png", "]", "\"", "}">>

\* The five scores of a grade are in the range 1 to 5
InRange(grade) ==
    \A d \in {"accuracy", "completeness", "relevance", "clarity", "reasoning"} :
        ScoreOf(grade, d) \in 1..5

\* C20 (as claimed): every GradeResult attached to an EvalRunResult has its five
\* scores in the range 1 to 5; a grading response that omits a score or carries
\* one outside the range never yields a populated grade.
C20_GradeRange ==
    /\ (pc = "ret" /\ ret.result # Nil /\ Deref(ret.result).Grade # Nil) =>
        InRange(Deref(Deref(ret.result).Grade))
    /\ \A k \in 1..Len(results) :
        results[k].Grade # Nil => InRange(Deref(results[k].Grade))

RECURSIVE TextOf(_)
\* The text the LLM emitted in a message content, block by block
TextOf(content) ==
    IF content = <<>> THEN <<>>
    ELSE (IF content[1].type = "text" THEN content[1].text ELSE <<>>)
            \o TextOf(Tail(content))

RECURSIVE AssistantText(_)
\* The text of all assistant messages of a history, in order
AssistantText(h) ==
    IF h = <<>> THEN <<>>
    ELSE (IF h[1].role = "assistant" THEN TextOf(h[1].content) ELSE <<>>)
            \o AssistantText(Tail(h))

\* C21: the raw_response of an eval result is the concatenation, in arrival order,
\* of every text delta streamed in every step of the loop, the steps that also
\* asked for tools included; nothing is dropped, repeated, reordered or added.
C21_RawResponse ==
    /\ (pc \in {"llm", "tools", "metrics", "grade"}) => finalText = AssistantText(messages)
    /\ (pc = "ret" /\ ret.result # Nil) =>
        /\ Deref(ret.result).Result # Nil
        /\ Deref(Deref(ret.result).Result).RawResponse = AssistantText(messages)
        /\ Len(messages) >= 2 * Len(llmRequests)

C21_Witness ==
    /\ pc = "ret"
    /\ ret.result # Nil
    /\ Len(llmRequests) = 2
    /\ trace.Steps[1].ToolCalls # <<>>
    /\ Deref(Deref(ret.result).Result).RawResponse = << <<1, 2>>, <<2, 1>> >>

----------------------------------------------------------------------------
\* The parameters of the requests (C22, C23)

\* The agent requests sent so far in this eval
AgentRequests == SelectSeq(requests, LAMBDA q : q.kind = "agent")

\* C22: the system prompt of every LLM call of the loop is the eval's
\* agent_system_prompt if non-empty, else the client config's if non-empty, else
\* the built-in default; with both overrides set only the eval's string is sent;
\* every step of an eval sends the same system prompt.
C22_PromptPrecedence ==
    \A k \in 1..Len(AgentRequests) :
        /\ Len(AgentRequests[k].System) = 1
        /\ AgentRequests[k].System[1].Text =
            IF evals[idx].AgentSystemPrompt # "" THEN evals[idx].AgentSystemPrompt
            ELSE IF config.AgentSystemPrompt # "" THEN config.AgentSystemPrompt
            ELSE "AgentSystemPrompt"
        /\ (evals[idx].AgentSystemPrompt # "" /\ config.AgentSystemPrompt # "") =>
            AgentRequests[k].System[1].Text # config.AgentSystemPrompt
        /\ AgentRequests[k].System[1].Text = AgentRequests[1].System[1].Text

C22_Witness ==
    /\ Len(AgentRequests) = 2
    /\ config.AgentSystemPrompt = "client prompt"
    /\ evals[idx].AgentSystemPrompt = "eval prompt"
    /\ AgentRequests[2].System[1].Text = "eval prompt"

\* The positions of the tool entries of a request that carry a marker
Marked(q) == {k \in 1..Len(q.Tools) : q.Tools[k].CacheControl # Nil}

\* The markers of a request, of its tool entries and of its system block
Markers(q) ==
    {Deref(q.Tools[k].CacheControl) : k \in Marked(q)}
        \cup {Deref(q.System[k].CacheControl) :
                k \in {j \in 1..Len(q.System) : q.System[j].CacheControl # Nil}}

\* C23: with prompt caching enabled, the last tool entry of a non-empty catalog and
\* no other carries a cache-control marker, and the system block carries one; with
\* caching disabled no tool entry and no system block, agent or grading, carries
\* one; a marker has TTL "1h" if and only if cache_ttl is "1h".
C23_CacheMarkers ==
    \A k \in 1..Len(requests) :
        /\ Len(requests[k].System) = 1
        /\ (config.EnablePromptCaching = Ptr(TRUE)) =>
            /\ requests[k].System[1].CacheControl # Nil
            /\ Marked(requests[k]) =
                IF requests[k].Tools = <<>> THEN {} ELSE {Len(requests[k].Tools)}
        /\ (config.EnablePromptCaching # Ptr(TRUE)) => Markers(requests[k]) = {}
        /\ \A m \in Markers(requests[k]) :
            /\ m.Type = "ephemeral"
            /\ (m.TTL = "1h") <=> (config.CacheTTL = "1h")
        /\ (requests[k].kind = "agent") =>
            [j \in 1..Len(requests[k].Tools) |-> requests[k].Tools[j].Name]
                \in {<<>>, <<"add">>, <<"add", "echo">>}

C23_Witness ==
    /\ config.EnablePromptCaching = Ptr(TRUE)
    /\ config.CacheTTL = "1h"
    /\ Len(requests) = 2
    /\ requests[1].kind = "agent"
    /\ Len(requests[1].Tools) = 2
    /\ Marked(requests[1]) = {2}
    /\ requests[1].Tools[2].CacheControl = Ptr([Type |-> "ephemeral", TTL |-> "1h"])
    /\ requests[2].kind = "grading"
    /\ requests[2].System[1].CacheControl = Ptr([Type |-> "ephemeral", TTL |-> "1h"])

\* Caching disabled and a catalog of two tools: no marker anywhere
C23_WitnessOff ==
    /\ config.EnablePromptCaching = Ptr(FALSE)
    /\ Len(requests) = 2
    /\ Len(requests[1].Tools) = 2
    /\ requests[2].kind = "grading"

----------------------------------------------------------------------------
\* CheckMinimumScores on its own (C24)

\* The minimum_scores of the rubric handed in (none for a nil rubric)
MinimumsIn(r) == IF r = Nil THEN <<>> ELSE Deref(r).MinimumScores

\* The dimensions listed in minimum_scores whose graded score is below the minimum
Below(r, grade) == {d \in DOMAIN MinimumsIn(r) : ScoreOf(grade, d) < MinimumsIn(r)[d]}

\* "<dim>: got <n>, required <m>"
FailureEntry(r, grade, d) ==
    <<d, ": got ", ToString(ScoreOf(grade, d)), ", required ", ToString(MinimumsIn(r)[d])>>

\* The errors that list each dimension of dims once, in some order
ErrorsListing(r, grade, dims) ==
    {<<"eval failed minimum score requirements: ">>
        \o Join([k \in 1..Cardinality(dims) |-> FailureEntry(r, grade, p[k])], <<"; ">>)
        \o <<". Review grading criteria or adjust rubric thresholds">> :
     p \in {q \in [1..Cardinality(dims) -> dims] :
                \A i, j \in DOMAIN q : q[i] = q[j] => i = j}}

\* C24: CheckMinimumScores returns nil if and only if the rubric is nil, has no
\* minimum scores, or every dimension listed in minimum_scores has a graded score
\* greater than or equal to its minimum; otherwise it returns one error that lists
\* exactly the dimensions below their minimum, each as "<dim>: got <n>, required
\* <m>", and no dimension that passed.
C24_CheckMinimumScores ==
    (output # Nil /\ DOMAIN input = {"r", "grade"}) =>
        /\ (Deref(output).err = <<>>) <=>
            \/ input.r = Nil
            \/ DOMAIN MinimumsIn(input.r) = {}
            \/ \A d \in DOMAIN MinimumsIn(input.r) :
                ScoreOf(input.grade, d) >= MinimumsIn(input.r)[d]
        /\ (Deref(output).err # <<>>) =>
            Deref(output).err \in ErrorsListing(input.r, input.grade,
                                                Below(input.r, input.grade))

\* Two of three listed dimensions are below their minimum, one passes
C24_Witness ==
    /\ output # Nil
    /\ DOMAIN input = {"r", "grade"}
    /\ input.r # Nil
    /\ DOMAIN MinimumsIn(input.r) = {"accuracy", "reasoning", "speed"}
    /\ MinimumsIn(input.r)["speed"] = 0
    /\ Below(input.r, input.grade) = {"accuracy", "reasoning"}
    /\ Deref(output).err =
        <<"eval failed minimum score requirements: ",
          "reasoning", ": got ", "2", ", required ", "3", "; ",
          "accuracy", ": got ", "3", ", required ", "5",
          ". Review grading criteria or adjust rubric thresholds">>

----------------------------------------------------------------------------
\* Validate on its own (C25)

\* The five dimension names
FiveDimensions == {"accuracy", "completeness", "relevance", "clarity", "reasoning"}

\* C25: Validate accepts a nil rubric and an empty rubric; for any other rubric it
\* returns an error if and only if some entry of dimensions or some key of
\* minimum_scores is none of accuracy, completeness, relevance, clarity,
\* reasoning, or some minimum score is below 1 or above 5.
C25_Validate ==
    (output # Nil /\ DOMAIN input = {"rubric"}) =>
        IF input.rubric = Nil THEN Deref(output).err = <<>>
        ELSE (Deref(output).err # <<>>) <=>
                \/ \E k \in DOMAIN Deref(input.rubric).Dimensions :
                    Deref(input.rubric).Dimensions[k] \notin FiveDimensions
                \/ \E d \in DOMAIN Deref(input.rubric).MinimumScores :
                    \/ d \notin FiveDimensions
                    \/ Deref(input.rubric).MinimumScores[d] < 1
                    \/ Deref(input.rubric).MinimumScores[d] > 5

\* A rubric whose names are all dimensions and whose only flaw is a minimum of 0
C25_Witness ==
    /\ output # Nil
    /\ input = [rubric |-> Ptr([Dimensions |-> <<"accuracy", "reasoning">>,
                                MinimumScores |-> [d \in {"clarity"} |-> 0]])]
    /\ Deref(output).err
        = <<"minimum score for '", "clarity", "' must be between 1 and 5, got ", "0">>

\* The empty rubric is accepted
C25_WitnessEmpty ==
    /\ output # Nil
    /\ input = [rubric |-> Ptr([Dimensions |-> <<>>, MinimumScores |-> <<>>])]
    /\ Deref(output).err = <<>>

----------------------------------------------------------------------------
\* The grading-response extractor on its own (C26)

\* The outputs of the four strategies on the trimmed text s, in their order; <<>>
\* where a strategy finds nothing
Strategies(s) ==
    <<TrimSpace(s),
      stripMarkdownFences(TrimSpace(s)),
      extractJSONWithRegex(TrimSpace(s)).text,
      extractJSONByScanning(TrimSpace(s)).text>>

\* The strategies whose output is valid JSON
Winners(s) == {k \in 1..4 : isValidJSON(Strategies(s)[k])}

C26_WitnessNone ==
    /\ output # Nil
    /\ input = [text |-> <<"fence", "\n", "{", "scores", "\n", "fence">>]
    /\ Winners(input.text) = {}
    /\ Deref(output).extracted.text = <<"{", "scores">>
    /\ Deref(output).graded.grade = Nil

\* The line scan wins where the pattern spans too much
C26_WitnessScan ==
    /\ output # Nil
    /\ Winners(input.text) = {4}
    /\ Deref(output).extracted.text = <<"{", "scores", "}">>
    /\ Deref(output).graded.grade # Nil

----------------------------------------------------------------------------
\* The exit code of the run command (C27)

\* Five times the average of the five scores of a grade
Sum5(g) == g.Accuracy + g.Completeness + g.Relevance + g.Clarity + g.Reasoning

C27_WitnessPass ==
    /\ output # Nil
    /\ DOMAIN input = {"results"}
    /\ Len(input.results) = 2
    /\ \A k \in 1..2 : input.results[k].Error = <<>>
    /\ Sum5(Deref(input.results[1].Grade)) = 15
    /\ Sum5(Deref(input.results[2].Grade)) = 16
    /\ Deref(output).code = 0

----------------------------------------------------------------------------
\* The order of the phases of one eval (C28)

\* The place of a phase in the order of the eval
Rank(phase) ==
    CASE phase \in {"llm", "tool"} -> 1
      [] phase = "metrics" -> 2
      [] phase = "grade" -> 3
      [] phase = "enforce" -> 4

\* The number of times a phase has happened
Times(phase) == Cardinality({k \in DOMAIN phases : phases[k] = phase})

RECURSIVE AllToolCalls(_)
\* The tool calls of all steps, in order
AllToolCalls(steps) ==
    IF steps = <<>> THEN <<>> ELSE steps[1].ToolCalls \o AllToolCalls(Tail(steps))

\* C28: within one eval the loop ends, then the trace aggregates are computed, then
\* grading is invoked exactly once, with a prompt that sees every tool call of
\* every step, then the minimum-score check runs; each at most once; grading is
\* never invoked before the loop has ended or after a fatal loop error, and the
\* minimum-score check runs only after grading has succeeded.
C28_PhaseOrder ==
    /\ \A i, j \in DOMAIN phases : i < j => Rank(phases[i]) <= Rank(phases[j])
    /\ Times("metrics") <= 1 /\ Times("grade") <= 1 /\ Times("enforce") <= 1
    /\ Times("grade") = gradeCalls
    /\ Times("grade") = 1 => Times("metrics") = 1
    /\ Times("enforce") = 1 =>
        /\ Times("grade") = 1
        /\ pc = "ret"
        /\ Deref(ret.result).Grade # Nil
        /\ trace.Grading # Nil /\ Deref(trace.Grading).Error = <<>>
    /\ (pc = "ret" /\ ret.err # <<>>) => Times("metrics") = 0 /\ Times("grade") = 0
    /\ (pc = "ret" /\ ret.err = <<>>) =>
        /\ Times("grade") = 1
        /\ requests[Len(requests)].kind = "grading"
        /\ Len(requests[Len(requests)].Prompt.ToolContext) = Times("tool")
        /\ Times("tool") = Deref(Deref(ret.result).Trace).ToolCallCount
        /\ Len(Deref(Deref(ret.result).Trace).Steps) = Times("llm")
        /\ \A k \in 1..Times("tool") :
            requests[Len(requests)].Prompt.ToolContext[k].Tool
                = AllToolCalls(Deref(Deref(ret.result).Trace).Steps)[k].ToolName
        /\ Times("enforce") =
            IF enforce /\ Deref(ret.result).Grade # Nil THEN 1 ELSE 0

\* Two steps and two tool calls, then the aggregates, the grading and the check
C28_Witness ==
    /\ pc = "ret"
    /\ phases = <<"llm", "tool", "llm", "tool", "metrics", "grade", "enforce">>
    /\ Len(requests[Len(requests)].Prompt.ToolContext) = 2
    /\ Deref(ret.result).Error # <<>>

\* A fatal loop error in the second step: no aggregates, no grading, no check
C28_WitnessFatal ==
    /\ pc = "ret"
    /\ ret.err # <<>>
    /\ phases = <<"llm", "tool", "llm">>

----------------------------------------------------------------------------
\* The shape of a trace (C29)

\* The loop of the running eval has ended without a stream error
LoopEnded == pc \in {"metrics", "grade"} \/ (pc = "ret" /\ ret.err = <<>>)

\* C29: in the trace of a loop that ended without a stream error every step but
\* the last has stop reason tool_use and at least one tool call, and a step whose
\* stop reason is not tool_use has no tool call.
C29_TraceShape ==
    LoopEnded =>
        \A k \in 1..Len(trace.Steps) :
            /\ k < Len(trace.Steps) =>
                /\ trace.Steps[k].StopReason = "tool_use"
                /\ trace.Steps[k].ToolCalls # <<>>
            /\ trace.Steps[k].StopReason # "tool_use" => trace.Steps[k].ToolCalls = <<>>

\* A step with a tool call, then a step cut at max_tokens whose message holds a
\* tool_use block that is not executed
C29_Witness ==
    /\ LoopEnded
    /\ Len(trace.Steps) = 2
    /\ trace.Steps[1].ToolCalls # <<>>
    /\ trace.Steps[2].StopReason = "max_tokens"
    /\ \E k \in DOMAIN message.content : message.content[k].type = "tool_use"
    /\ trace.Steps[2].ToolCalls = <<>>

\* A last step that asked for tools without a tool_use block
C29_WitnessNoBlock ==
    /\ LoopEnded
    /\ Len(trace.Steps) = 1
    /\ trace.Steps[1].StopReason = "tool_use"
    /\ trace.Steps[1].ToolCalls = <<>>

----------------------------------------------------------------------------
\* A grading response without a text block (C30)

\* The grading call of the running eval returned, without error, a response whose
\* content is empty or whose first block is not a text block
NoTextResponse ==
    /\ gradeOutcome # Nil
    /\ Deref(gradeOutcome).apiErr = <<>>
    /\ Deref(gradeOutcome).noText

\* C30: a grading response that arrives without error but holds no text block in
\* first place is a grading failure of that one eval: RunEval returns the result
\* with Error set, Grade nil, the eval result and the trace kept; RunEval does not
\* crash and the batch goes on.
C30_NoTextIsGradingFailure ==
    /\ pc # "panic"
    /\ NoTextResponse =>
        /\ pc = "ret"
        /\ ret.err = <<>>
        /\ ret.result # Nil
        /\ Deref(ret.result).Grade = Nil
        /\ Deref(ret.result).Error # <<>>
        /\ Deref(ret.result).Result # Nil
        /\ Deref(ret.result).Trace # Nil
        /\ Deref(Deref(ret.result).Trace).Steps # <<>>

====
